---- MODULE Spec2Model ----
(***************************************************************************)
(* Model of the ACPI table inspector (acpiview) of edk2: the generic       *)
(* table-driven field parser, the structure database, the per-table        *)
(* dispatchers and the cross-structure validator.                          *)
(*                                                                         *)
(* A table is a sequence of bytes; a pointer into it is the byte offset    *)
(* from the start of the buffer and NULL is -1.  Output written to the     *)
(* log sink is kept as a sequence of records.                              *)
(***************************************************************************)
EXTENDS Integers, Sequences, FiniteSets, TLC

VARIABLES
  op,               \* the entry point this behaviour exercises
  pc,               \* position inside the running entry point
  Buf,              \* the table buffer (bytes)
  AcpiTableLength,  \* the length handed to the entry point
  ConsistencyCheck, \* mConfig.ConsistencyCheck
  Arch,             \* the architecture the program was built for
  Offset,           \* the dispatcher's running offset
  BodyOffset,       \* the dispatcher's offset of the first sub-structure
  Index,            \* the dispatcher's sub-structure index
  gIndent,          \* the process-wide indent
  slots,            \* the capture slots (static ItemPtr targets)
  Counts,           \* instance counters of the structure databases
  mRefList,         \* the cross-reference list in use
  heap,             \* addresses of the memory pool and of the list heads
  log,              \* everything written to the output sink
  ret,              \* value returned by the last call of the entry point
  call,             \* inputs of the last call (ghost)
  hist              \* what the run did, for stating properties (ghost)

vars == << op, pc, Buf, AcpiTableLength, ConsistencyCheck, Arch, Offset, BodyOffset,
           Index, gIndent, slots, Counts, mRefList, heap, log, ret, call, hist >>

NULL == -1

(***************************************************************************)
(* UINT32.  A 32-bit unsigned value is kept as the integer with the same   *)
(* 32-bit two's complement pattern: v for v < 2^31 and v - 2^32 above.     *)
(* Add32 and Sub32 wrap modulo 2^32; Lt32 and Gt32 compare as unsigned.    *)
(***************************************************************************)
MaxInt32 == 2147483647

Add32(a, b) ==
  IF a >= 0 /\ b >= 0 /\ a > MaxInt32 - b
  THEN (a - MaxInt32 - 1) + (b - MaxInt32 - 1)
  ELSE IF a < 0 /\ b < 0 /\ a < (-MaxInt32 - 1) - b
  THEN (a + MaxInt32 + 1) + (b + MaxInt32 + 1)
  ELSE a + b

Neg32(a) == IF a = -MaxInt32 - 1 THEN a ELSE -a

Sub32(a, b) == Add32(a, Neg32(b))

Lt32(a, b) ==
  IF (a >= 0) = (b >= 0) THEN a < b ELSE a >= 0

Gt32(a, b) == Lt32(b, a)

\* a + b > c for three 32-bit values, the sum taken without wrapping (the
\* operands are widened before they are added).
Hi31(a) == IF a < 0 THEN 1 ELSE 0

Lo31(a) == IF a < 0 THEN a + MaxInt32 + 1 ELSE a

Carry31(a, b) == IF Lo31(a) > MaxInt32 - Lo31(b) THEN 1 ELSE 0

SumExceeds(a, b, c) ==
  \/ Hi31(a) + Hi31(b) + Carry31(a, b) > Hi31(c)
  \/ /\ Hi31(a) + Hi31(b) + Carry31(a, b) = Hi31(c)
     /\ (IF Carry31(a, b) = 1 THEN (Lo31(a) - MaxInt32 - 1) + Lo31(b)
                              ELSE Lo31(a) + Lo31(b)) > Lo31(c)

(***************************************************************************)
(* Sequence helpers.                                                       *)
(***************************************************************************)
RECURSIVE SumSeq(_)
SumSeq(s) == IF s = << >> THEN 0 ELSE Head(s) + SumSeq(Tail(s))

Zeros(n) == [i \in 1..n |-> 0]

RECURSIVE SeqsUpTo(_, _)
SeqsUpTo(S, n) ==
  IF n = 0 THEN { << >> }
  ELSE LET shorter == SeqsUpTo(S, n - 1)
       IN  shorter \cup { Append(s, x) : s \in { t \in shorter : Len(t) = n - 1 }, x \in S }

(***************************************************************************)
(* Unaligned little-endian loads and stores over a byte sequence.          *)
(* A load that is not inside the sequence has no defined value: the        *)
(* callers decide what an out-of-range load yields.                        *)
(***************************************************************************)
InBuf(b, off, n) == off >= 0 /\ off + n <= Len(b)

Read8(b, off) == b[off + 1]

ReadUnaligned16(b, off) == b[off + 1] + 256 * b[off + 2]

ReadUnaligned32(b, off) ==
  b[off + 1] + 256 * b[off + 2] + 65536 * b[off + 3]
    + 16777216 * (IF b[off + 4] >= 128 THEN b[off + 4] - 256 ELSE b[off + 4])

ReadField(b, off, n) ==
  IF n = 1 THEN Read8(b, off)
  ELSE IF n = 2 THEN ReadUnaligned16(b, off)
  ELSE ReadUnaligned32(b, off)

LE8(v) == << v % 256 >>

LE16(v) == << v % 256, (v \div 256) % 256 >>

LE32(v) ==
  << v % 256, (v \div 256) % 256, (v \div 65536) % 256, (v \div 16777216) % 256 >>

LE64(lo) == LE32(lo) \o Zeros(4)

\* A 64-bit value is kept as its low and high 32-bit halves.
ReadUnaligned64(b, off) ==
  << ReadUnaligned32(b, off), ReadUnaligned32(b, off + 4) >>

(***************************************************************************)
(* The output sink.  One record per call of AcpiLog / AcpiInfo / AcpiError  *)
(* / AcpiFatal: severity, error kind, the format text, the string argument  *)
(* and the integer arguments in the order they are passed.                  *)
(***************************************************************************)
Rec(sev, kind, msg, name, args) ==
  [sev |-> sev, kind |-> kind, msg |-> msg, name |-> name, args |-> args]

Emit(g, r) == [g EXCEPT !.log = Append(@, r)]

AcpiError(g, kind, msg, name, args) == Emit(g, Rec("error", kind, msg, name, args))

(***************************************************************************)
(* ACPI_PARSER: one field descriptor.  "NULL" stands for a null Format,     *)
(* PrintFormatter, ItemPtr or FieldValidator.                               *)
(***************************************************************************)
ACPI_PARSER(NameStr, Length, Off, Format, PrintFormatter, ItemPtr, FieldValidator) ==
  [NameStr |-> NameStr, Length |-> Length, Offset |-> Off, Format |-> Format,
   PrintFormatter |-> PrintFormatter, ItemPtr |-> ItemPtr,
   FieldValidator |-> FieldValidator]

NoSlot == << >>

PARSE_ACPI_HEADER(Info) ==
  << ACPI_PARSER("Signature", 4, 0, "NULL", "Dump4Chars", << Info, "Signature" >>, "NULL"),
     ACPI_PARSER("Length", 4, 4, "%d", "NULL", << Info, "Length" >>, "NULL"),
     ACPI_PARSER("Revision", 1, 8, "%d", "NULL", << Info, "Revision" >>, "NULL"),
     ACPI_PARSER("Checksum", 1, 9, "0x%X", "NULL", << Info, "Checksum" >>, "NULL"),
     ACPI_PARSER("Oem ID", 6, 10, "NULL", "Dump6Chars", << Info, "OemId" >>, "NULL"),
     ACPI_PARSER("Oem Table ID", 8, 16, "NULL", "Dump8Chars", << Info, "OemTableId" >>, "NULL"),
     ACPI_PARSER("Oem Revision", 4, 24, "0x%X", "NULL", << Info, "OemRevision" >>, "NULL"),
     ACPI_PARSER("Creator ID", 4, 28, "NULL", "Dump4Chars", << Info, "CreatorId" >>, "NULL"),
     ACPI_PARSER("Creator Revision", 4, 32, "0x%X", "NULL", << Info, "CreatorRevision" >>, "NULL") >>

AcpiHeaderParser == PARSE_ACPI_HEADER("AcpiHdrInfo")

GasParser ==
  << ACPI_PARSER("Address Space ID", 1, 0, "0x%x", "NULL", NoSlot, "NULL"),
     ACPI_PARSER("Register Bit Width", 1, 1, "0x%x", "NULL", NoSlot, "NULL"),
     ACPI_PARSER("Register Bit Offset", 1, 2, "0x%x", "NULL", NoSlot, "NULL"),
     ACPI_PARSER("Address Size", 1, 3, "0x%x", "NULL", NoSlot, "NULL"),
     ACPI_PARSER("Address", 8, 4, "0x%lx", "NULL", NoSlot, "NULL") >>

(***************************************************************************)
(* The generic field parser.                                               *)
(*                                                                         *)
(* The operators below thread the mutable program state through a record   *)
(* g: gIndent, the capture slots, the structure counters, the log, and     *)
(* oob, which is raised when the program loads bytes that are not inside   *)
(* the table buffer (the value of such a load is not defined).             *)
(***************************************************************************)
RECURSIVE ParseAcpi(_, _, _, _, _, _, _)
RECURSIVE ParseAcpiFields(_, _, _, _, _, _, _)
RECURSIVE DumpAndValidate(_, _, _)
RECURSIVE CallPrintFormatter(_, _, _, _)
RECURSIVE CallFieldValidator(_, _, _)
RECURSIVE CallParserFunc(_, _, _, _)

SetSlot(g, ItemPtr, p) ==
  IF ItemPtr # NoSlot THEN [g EXCEPT !.slots[ItemPtr] = p] ELSE g

\* The bytes a field trace prints; a load outside the buffer raises oob.
Load(g, Ptr, n) == IF InBuf(Buf, Ptr, n) THEN g ELSE [g EXCEPT !.oob = TRUE]

Bytes(Ptr, n) == IF InBuf(Buf, Ptr, n) THEN SubSeq(Buf, Ptr + 1, Ptr + n) ELSE << >>

Value(Ptr, n) ==
  IF ~InBuf(Buf, Ptr, n) THEN << >>
  ELSE IF n = 8 THEN ReadUnaligned64(Buf, Ptr)
  ELSE << ReadField(Buf, Ptr, n) >>

\* DumpAndValidate, lines 157-176: the formatter or the format prints the field.
DumpField(Parser, Ptr, g) ==
  IF Parser.PrintFormatter # "NULL"
  THEN CallPrintFormatter(Parser.PrintFormatter, Parser.Format, Ptr, g)
  ELSE IF Parser.Format # "NULL"
  THEN IF Parser.Length \in {1, 2, 4, 8}
       THEN Emit(Load(g, Ptr, Parser.Length),
                 Rec("info", "", Parser.Format, "", Value(Ptr, Parser.Length)))
       ELSE Emit(g, Rec("bad", "", "<Parse Error>", "", << >>))
  ELSE g

\* DumpAndValidate, lines 180-182: the validator runs in consistency mode.
ValidateField(Parser, Ptr, g) ==
  IF ConsistencyCheck /\ Parser.FieldValidator # "NULL"
  THEN CallFieldValidator(Parser.FieldValidator, Ptr, g)
  ELSE g

DumpAndValidate(Parser, Ptr, g) ==
  ValidateField(Parser, Ptr,
    DumpField(Parser, Ptr, Emit(g, Rec("field", "", Parser.NameStr, "", << >>))))

\* ParseAcpi, lines 474-482: the offset check of consistency mode.
CheckOffset(P, Offset_, g) ==
  IF ConsistencyCheck /\ Offset_ # P.Offset
  THEN AcpiError(g, "parse", "%a: Offset Mismatch for %s (%d != %d)",
                 P.NameStr, << Offset_, P.Offset >>)
  ELSE g

\* ParseAcpi, lines 484-486.
TraceField(Trace, P, Ptr, g) ==
  IF Trace THEN DumpAndValidate(P, Ptr, g) ELSE g

\* ParseAcpi, lines 462-492: one iteration of the loop, for descriptor
\* Index_; s holds the running Offset and the program state g.
ParseAcpiField(Index_, Trace, Ptr, Length, Parser, s) ==
  IF Gt32(Add32(s.Offset, Parser[Index_].Length), Length)
  THEN [Offset |-> s.Offset, g |-> SetSlot(s.g, Parser[Index_].ItemPtr, NULL)]
  ELSE [Offset |-> Add32(s.Offset, Parser[Index_].Length),
        g |-> SetSlot(TraceField(Trace, Parser[Index_], Ptr + s.Offset,
                                 CheckOffset(Parser[Index_], s.Offset, s.g)),
                      Parser[Index_].ItemPtr, Ptr + s.Offset)]

\* ParseAcpi, lines 461-493: the loop over the descriptors First..Last in
\* order (the range is split in halves, the first half runs before the
\* second).
ParseAcpiFields(First, Last, Trace, Ptr, Length, Parser, s) ==
  IF First > Last THEN s
  ELSE IF First = Last THEN ParseAcpiField(First, Trace, Ptr, Length, Parser, s)
  ELSE CHOOSE r \in
         { ParseAcpiFields(((First + Last) \div 2) + 1, Last, Trace, Ptr, Length, Parser, h) :
             h \in { ParseAcpiFields(First, (First + Last) \div 2, Trace, Ptr, Length,
                                     Parser, s) } } : TRUE

\* ParseAcpi, line 497: the running offset is the return value.
ReturnOffset(s) == [s.g EXCEPT !.ret = s.Offset]

\* ParseAcpi, lines 453-458: the indent is raised and the item is named.
EnterParseAcpi(Trace, Indent, AsciiName, g) ==
  IF Trace /\ AsciiName # "NULL"
  THEN Emit([g EXCEPT !.gIndent = Add32(@, Indent)],
            Rec("item", "", "%*.a%a", AsciiName, << Add32(g.gIndent, Indent) >>))
  ELSE [g EXCEPT !.gIndent = Add32(@, Indent)]

\* A return that leaves the indent as the call raised it.
LeaveWithoutRestoring(Indent, g) == g

\* ParseAcpi, lines 495-497.
LeaveParseAcpi(Indent, g) == [g EXCEPT !.gIndent = Sub32(@, Indent)]

ParseAcpiBody(Trace, Indent, AsciiName, Ptr, Length, Parser, g) ==
  IF Length = 0
  THEN [Emit(g, Rec("warn", "", "Will not parse zero-length buffer <%a>=%p",
                    IF AsciiName # "NULL" THEN AsciiName ELSE "Unknown Item",
                    << Ptr >>))
          EXCEPT !.ret = 0]
  ELSE LeaveParseAcpi(Indent,
         ReturnOffset(
           ParseAcpiFields(1, Len(Parser), Trace, Ptr, Length, Parser,
             [Offset |-> 0, g |-> EnterParseAcpi(Trace, Indent, AsciiName, g)])))

\* ParseAcpi, with the indent before and after the call noted in the ghost
\* history (the set of << before, after >> pairs of all calls made so far).
NoteCall(before, r) == [r EXCEPT !.hist.calls = @ \cup { << before, r.gIndent >> }]

ParseAcpi(Trace, Indent, AsciiName, Ptr, Length, Parser, g) ==
  NoteCall(g.gIndent, ParseAcpiBody(Trace, Indent, AsciiName, Ptr, Length, Parser, g))

(***************************************************************************)
(* Tracing of the Generic Address Structure and of the ACPI header.        *)
(***************************************************************************)
DumpGasStruct(Ptr, Indent, Length, g) ==
  LET g1 == Emit(g, Rec("info", "", "", "", << >>))
  IN  ParseAcpi(TRUE, Indent, "NULL", Ptr, Length, GasParser, g1)

DumpGas(Format, Ptr, g) == DumpGasStruct(Ptr, 2, 12, g)

DumpAcpiHeader(Ptr, g) ==
  ParseAcpi(TRUE, 0, "ACPI Table Header", Ptr, 36, AcpiHeaderParser, g)

ParseAcpiHeader(Ptr, g) ==
  ParseAcpi(FALSE, 0, "NULL", Ptr, 36, AcpiHeaderParser, g)

(***************************************************************************)
(* Structure databases.  CompatArch is the set of architectures of the     *)
(* ARCH_COMPAT_* bits; Handler is a ParserFunc, a ParserArray or neither.  *)
(***************************************************************************)
Field(NameStr, Length, Off, Format) ==
  ACPI_PARSER(NameStr, Length, Off, Format, "NULL", NoSlot, "NULL")

ARCH_COMPAT_IA32 == {"IA32"}

ARCH_COMPAT_X64 == {"X64"}

ARCH_COMPAT_ARM == {"ARM"}

ARCH_COMPAT_AARCH64 == {"AARCH64"}

ADD_ACPI_STRUCT_INFO_ARRAY(Name, Type, Compat, Array) ==
  [Name |-> Name, Type |-> Type, CompatArch |-> Compat,
   ParserFunc |-> "NULL", ParserArray |-> Array]

ADD_ACPI_STRUCT_INFO_FUNC(Name, Type, Compat, Func) ==
  [Name |-> Name, Type |-> Type, CompatArch |-> Compat,
   ParserFunc |-> Func, ParserArray |-> << >>]

ACPI_STRUCT_INFO_PARSER_NOT_IMPLEMENTED(Name, Type, Compat) ==
  [Name |-> Name, Type |-> Type, CompatArch |-> Compat,
   ParserFunc |-> "NULL", ParserArray |-> << >>]

\* Db names the counter column of the database in Counts.
ACPI_STRUCT_DATABASE(Db, Name, Entries) ==
  [Db |-> Db, Name |-> Name, Entries |-> Entries, EntryCount |-> Len(Entries)]

(***************************************************************************)
(* MADT descriptor tables and database.                                    *)
(***************************************************************************)
GicCParser ==
  << Field("Type", 1, 0, "0x%x"),
     Field("Length", 1, 1, "%d"),
     Field("Reserved", 2, 2, "0x%x"),
     Field("CPU Interface Number", 4, 4, "0x%x"),
     Field("ACPI Processor UID", 4, 8, "0x%x"),
     Field("Flags", 4, 12, "0x%x"),
     Field("Parking Protocol Version", 4, 16, "0x%x"),
     Field("Performance Interrupt GSIV", 4, 20, "0x%x"),
     Field("Parked Address", 8, 24, "0x%lx"),
     Field("Physical Base Address", 8, 32, "0x%lx"),
     Field("GICV", 8, 40, "0x%lx"),
     Field("GICH", 8, 48, "0x%lx"),
     Field("VGIC Maintenance interrupt", 4, 56, "0x%x"),
     Field("GICR Base Address", 8, 60, "0x%lx"),
     Field("MPIDR", 8, 68, "0x%lx"),
     Field("Processor Power Efficiency Class", 1, 76, "0x%x"),
     Field("Reserved", 1, 77, "0x%x"),
     ACPI_PARSER("SPE overflow Interrupt", 2, 78, "0x%x", "NULL", NoSlot,
                 "ValidateSpeOverflowInterrupt") >>

GicDParser ==
  << Field("Type", 1, 0, "0x%x"),
     Field("Length", 1, 1, "%d"),
     Field("Reserved", 2, 2, "0x%x"),
     Field("GIC ID", 4, 4, "0x%x"),
     Field("Physical Base Address", 8, 8, "0x%lx"),
     ACPI_PARSER("System Vector Base", 4, 16, "0x%x", "NULL", NoSlot,
                 "ValidateGICDSystemVectorBase"),
     Field("GIC Version", 1, 20, "%d"),
     ACPI_PARSER("Reserved", 3, 21, "%x %x %x", "Dump3Chars", NoSlot, "NULL") >>

GicMSIFrameParser ==
  << Field("Type", 1, 0, "0x%x"),
     Field("Length", 1, 1, "%d"),
     Field("Reserved", 2, 2, "0x%x"),
     Field("MSI Frame ID", 4, 4, "0x%x"),
     Field("Physical Base Address", 8, 8, "0x%lx"),
     Field("Flags", 4, 16, "0x%x"),
     Field("SPI Count", 2, 20, "%d"),
     Field("SPI Base", 2, 22, "0x%x") >>

GicRParser ==
  << Field("Type", 1, 0, "0x%x"),
     Field("Length", 1, 1, "%d"),
     Field("Reserved", 2, 2, "0x%x"),
     Field("Discovery Range Base Address", 8, 4, "0x%lx"),
     Field("Discovery Range Length", 4, 12, "0x%x") >>

GicITSParser ==
  << Field("Type", 1, 0, "0x%x"),
     Field("Length", 1, 1, "%d"),
     Field("Reserved", 2, 2, "0x%x"),
     Field("GIC ITS ID", 4, 4, "0x%x"),
     Field("Physical Base Address", 8, 8, "0x%lx"),
     Field("Reserved", 4, 16, "0x%x") >>

MadtParser ==
  PARSE_ACPI_HEADER("Madt.AcpiHdrInfo")
    \o << Field("Local Interrupt Controller Address", 4, 36, "0x%x"),
          Field("Flags", 4, 40, "0x%x") >>

MadtInterruptControllerHeaderParser ==
  << ACPI_PARSER("NULL", 1, 0, "NULL", "NULL", << "Madt", "MadtInterruptControllerType" >>, "NULL"),
     ACPI_PARSER("Length", 1, 1, "NULL", "NULL", << "Madt", "MadtInterruptControllerLength" >>, "NULL"),
     ACPI_PARSER("Reserved", 2, 2, "NULL", "NULL", NoSlot, "NULL") >>

IA32_X64 == ARCH_COMPAT_IA32 \cup ARCH_COMPAT_X64

ARM_AARCH64 == ARCH_COMPAT_ARM \cup ARCH_COMPAT_AARCH64

MadtStructs ==
  << ACPI_STRUCT_INFO_PARSER_NOT_IMPLEMENTED("Processor Local APIC", 0, IA32_X64),
     ACPI_STRUCT_INFO_PARSER_NOT_IMPLEMENTED("I/O APIC", 1, IA32_X64),
     ACPI_STRUCT_INFO_PARSER_NOT_IMPLEMENTED("Interrupt Source Override", 2, IA32_X64),
     ACPI_STRUCT_INFO_PARSER_NOT_IMPLEMENTED("NMI Source", 3, IA32_X64),
     ACPI_STRUCT_INFO_PARSER_NOT_IMPLEMENTED("Local APIC NMI", 4, IA32_X64),
     ACPI_STRUCT_INFO_PARSER_NOT_IMPLEMENTED("Local APIC Address Override", 5, IA32_X64),
     ACPI_STRUCT_INFO_PARSER_NOT_IMPLEMENTED("I/O SAPIC", 6, IA32_X64),
     ACPI_STRUCT_INFO_PARSER_NOT_IMPLEMENTED("Local SAPIC", 7, IA32_X64),
     ACPI_STRUCT_INFO_PARSER_NOT_IMPLEMENTED("Platform Interrupt Sources", 8, IA32_X64),
     ACPI_STRUCT_INFO_PARSER_NOT_IMPLEMENTED("Processor Local x2APIC", 9, IA32_X64),
     ACPI_STRUCT_INFO_PARSER_NOT_IMPLEMENTED("Local x2APIC NMI", 10, IA32_X64),
     ADD_ACPI_STRUCT_INFO_ARRAY("GICC", 11, ARM_AARCH64, GicCParser),
     ADD_ACPI_STRUCT_INFO_ARRAY("GICD", 12, ARM_AARCH64, GicDParser),
     ADD_ACPI_STRUCT_INFO_ARRAY("GIC MSI Frame", 13, ARM_AARCH64, GicMSIFrameParser),
     ADD_ACPI_STRUCT_INFO_ARRAY("GICR", 14, ARM_AARCH64, GicRParser),
     ADD_ACPI_STRUCT_INFO_ARRAY("GIC ITS", 15, ARM_AARCH64, GicITSParser) >>

MadtDatabase ==
  ACPI_STRUCT_DATABASE("Madt", "Interrupt Controller Structure", MadtStructs)

(***************************************************************************)
(* PPTT descriptor tables.                                                 *)
(***************************************************************************)
Validated(NameStr, Length, Off, Format, FieldValidator) ==
  ACPI_PARSER(NameStr, Length, Off, Format, "NULL", NoSlot, FieldValidator)

Captured(NameStr, Length, Off, Format, ItemPtr, FieldValidator) ==
  ACPI_PARSER(NameStr, Length, Off, Format, "NULL", ItemPtr, FieldValidator)

PpttType == << "Pptt", "ProcessorTopologyStructureType" >>

PpttLength == << "Pptt", "ProcessorTopologyStructureLength" >>

NumberOfPrivateResources == << "Pptt", "NumberOfPrivateResources" >>

PpttParser == PARSE_ACPI_HEADER("Pptt.AcpiHdrInfo")

ProcessorTopologyStructureHeaderParser ==
  << Captured("Type", 1, 0, "NULL", PpttType, "NULL"),
     Captured("Length", 1, 1, "NULL", PpttLength, "NULL"),
     Field("Reserved", 2, 2, "NULL") >>

ProcessorHierarchyNodeStructureParser ==
  << Field("Type", 1, 0, "0x%x"),
     Field("Length", 1, 1, "%d"),
     Field("Reserved", 2, 2, "0x%x"),
     Field("Flags", 4, 4, "0x%x"),
     Validated("Parent", 4, 8, "0x%x", "ValidateReference"),
     Field("ACPI Processor ID", 4, 12, "0x%x"),
     Captured("Number of private resources", 4, 16, "%d", NumberOfPrivateResources,
              "NULL") >>

CacheTypeStructureParser ==
  << Field("Type", 1, 0, "0x%x"),
     Field("Length", 1, 1, "%d"),
     Field("Reserved", 2, 2, "0x%x"),
     Field("Flags", 4, 4, "0x%x"),
     Validated("Next Level of Cache", 4, 8, "0x%x", "ValidateReference"),
     Field("Size", 4, 12, "0x%x"),
     Validated("Number of sets", 4, 16, "%d", "ValidateCacheNumberOfSets"),
     Validated("Associativity", 1, 20, "%d", "ValidateCacheAssociativity"),
     Validated("Attributes", 1, 21, "0x%x", "ValidateCacheAttributes"),
     Validated("Line size", 2, 22, "%d", "ValidateCacheLineSize") >>

IdStructureParser ==
  << Field("Type", 1, 0, "0x%x"),
     Field("Length", 1, 1, "%d"),
     Field("Reserved", 2, 2, "0x%x"),
     ACPI_PARSER("VENDOR_ID", 4, 4, "NULL", "Dump4Chars", NoSlot, "NULL"),
     Field("LEVEL_1_ID", 8, 8, "0x%x"),
     Field("LEVEL_2_ID", 8, 16, "0x%x"),
     Field("MAJOR_REV", 2, 24, "0x%x"),
     Field("MINOR_REV", 2, 26, "0x%x"),
     Field("SPIN_REV", 2, 28, "0x%x") >>

ALL_ARCH == IA32_X64 \cup ARM_AARCH64

PpttStructs ==
  << ADD_ACPI_STRUCT_INFO_FUNC("Processor", 0, ALL_ARCH,
                               "DumpProcessorHierarchyNodeStructure"),
     ADD_ACPI_STRUCT_INFO_ARRAY("Cache", 1, ALL_ARCH, CacheTypeStructureParser),
     ADD_ACPI_STRUCT_INFO_ARRAY("ID", 2, ALL_ARCH, IdStructureParser) >>

PpttDatabase ==
  ACPI_STRUCT_DATABASE("Pptt", "Processor Topology Structure", PpttStructs)

(***************************************************************************)
(* IORT descriptor tables.                                                 *)
(***************************************************************************)
IortSlot(Name) == << "Iort", Name >>

PARSE_IORT_NODE_HEADER(ValidateIdMappingCount, ValidateIdArrayReference) ==
  << Captured("Type", 1, 0, "%d", IortSlot("IortNodeType"), "NULL"),
     Captured("Length", 2, 1, "%d", IortSlot("IortNodeLength"), "NULL"),
     Field("Revision", 1, 3, "%d"),
     Field("Reserved", 4, 4, "0x%x"),
     Captured("Number of ID mappings", 4, 8, "%d", IortSlot("IortIdMappingCount"),
              ValidateIdMappingCount),
     Captured("Reference to ID Array", 4, 12, "0x%x", IortSlot("IortIdMappingOffset"),
              ValidateIdArrayReference) >>

IortParser ==
  PARSE_ACPI_HEADER("Iort.AcpiHdrInfo") \o
  << Captured("Number of IORT Nodes", 4, 36, "%d", IortSlot("IortNodeCount"), "NULL"),
     Captured("Offset to Array of IORT Nodes", 4, 40, "0x%x", IortSlot("IortNodeOffset"),
              "NULL"),
     Field("Reserved", 4, 44, "0x%x") >>

IortNodeHeaderParser == PARSE_IORT_NODE_HEADER("NULL", "NULL")

IortNodeSmmuV1V2Parser ==
  PARSE_IORT_NODE_HEADER("NULL", "NULL") \o
  << Field("Base Address", 8, 16, "0x%lx"),
     Field("Span", 8, 24, "0x%lx"),
     Field("Model", 4, 32, "%d"),
     Field("Flags", 4, 36, "0x%x"),
     Field("Reference to Global Interrupt Array", 4, 40, "0x%x"),
     Captured("Number of context interrupts", 4, 44, "%d",
              IortSlot("InterruptContextCount"), "NULL"),
     Captured("Reference to Context Interrupt Array", 4, 48, "0x%x",
              IortSlot("InterruptContextOffset"), "NULL"),
     Captured("Number of PMU Interrupts", 4, 52, "%d", IortSlot("PmuInterruptCount"),
              "NULL"),
     Captured("Reference to PMU Interrupt Array", 4, 56, "0x%x",
              IortSlot("PmuInterruptOffset"), "NULL"),
     Field("SMMU_NSgIrpt", 4, 60, "0x%x"),
     Field("SMMU_NSgIrpt interrupt flags", 4, 64, "0x%x"),
     Field("SMMU_NSgCfgIrpt", 4, 68, "0x%x"),
     Field("SMMU_NSgCfgIrpt interrupt flags", 4, 72, "0x%x") >>

InterruptArrayParser ==
  << Field("Interrupt GSIV", 4, 0, "0x%x"), Field("Flags", 4, 4, "0x%x") >>

IortNodeIdMappingParser ==
  << Field("Input base", 4, 0, "0x%x"),
     Field("Number of IDs", 4, 4, "0x%x"),
     Field("Output base", 4, 8, "0x%x"),
     Field("Output reference", 4, 12, "0x%x"),
     Field("Flags", 4, 16, "0x%x") >>

IortNodeSmmuV3Parser ==
  PARSE_IORT_NODE_HEADER("NULL", "NULL") \o
  << Field("Base Address", 8, 16, "0x%lx"),
     Field("Flags", 4, 24, "0x%x"),
     Field("Reserved", 4, 28, "0x%x"),
     Field("VATOS Address", 8, 32, "0x%lx"),
     Field("Model", 4, 40, "%d"),
     Field("Event", 4, 44, "0x%x"),
     Field("PRI", 4, 48, "0x%x"),
     Field("GERR", 4, 52, "0x%x"),
     Field("Sync", 4, 56, "0x%x"),
     Field("Proximity domain", 4, 60, "0x%x"),
     Field("Device ID mapping index", 4, 64, "%d") >>

IortNodeItsParser ==
  PARSE_IORT_NODE_HEADER("ValidateItsIdMappingCount", "ValidateItsIdArrayReference") \o
  << Captured("Number of ITSs", 4, 16, "%d", IortSlot("ItsCount"), "NULL") >>

ItsIdParser == << Field("GIC ITS Identifier", 4, 0, "%d") >>

IortNodeNamedComponentParser ==
  PARSE_IORT_NODE_HEADER("NULL", "NULL") \o
  << Field("Node Flags", 4, 16, "%d"),
     Field("Memory access properties", 8, 20, "0x%lx"),
     Field("Device memory address size limit", 1, 28, "%d") >>

IortNodeRootComplexParser ==
  PARSE_IORT_NODE_HEADER("NULL", "NULL") \o
  << Field("Memory access properties", 8, 16, "0x%lx"),
     Field("ATS Attribute", 4, 24, "0x%x"),
     Field("PCI Segment number", 4, 28, "0x%x"),
     Field("Memory access size limit", 1, 32, "0x%x"),
     ACPI_PARSER("Reserved", 3, 33, "%x %x %x", "Dump3Chars", NoSlot, "NULL") >>

IortNodePmcgParser ==
  PARSE_IORT_NODE_HEADER("ValidatePmcgIdMappingCount", "NULL") \o
  << Field("Page 0 Base Address", 8, 16, "0x%lx"),
     Field("Overflow interrupt GSIV", 4, 24, "0x%x"),
     Field("Node reference", 4, 28, "0x%x"),
     Field("Page 1 Base Address", 8, 32, "0x%lx") >>

IortStructs ==
  << ADD_ACPI_STRUCT_INFO_FUNC("ITS Group", 0, ARM_AARCH64, "DumpIortNodeIts"),
     ADD_ACPI_STRUCT_INFO_FUNC("Named Component", 1, ARM_AARCH64,
                               "DumpIortNodeNamedComponent"),
     ADD_ACPI_STRUCT_INFO_FUNC("Root Complex", 2, ARM_AARCH64, "DumpIortNodeRootComplex"),
     ADD_ACPI_STRUCT_INFO_FUNC("SMMUv1 or SMMUv2", 3, ARM_AARCH64, "DumpIortNodeSmmuV1V2"),
     ADD_ACPI_STRUCT_INFO_FUNC("SMMUv3", 4, ARM_AARCH64, "DumpIortNodeSmmuV3"),
     ADD_ACPI_STRUCT_INFO_FUNC("PMCG", 5, ARM_AARCH64, "DumpIortNodePmcg") >>

IortDatabase == ACPI_STRUCT_DATABASE("Iort", "IORT Node", IortStructs)

(***************************************************************************)
(* Constraint reporting of the log library: a constraint that does not     *)
(* hold is reported, as an error by AssertConstraint and as a warning by   *)
(* WarnConstraint.                                                         *)
(***************************************************************************)
AssertConstraint(g, Standard, Constraint) ==
  IF Constraint THEN g
  ELSE AcpiError(g, "value", "Constraint not met", Standard, << >>)

WarnConstraint(g, Standard, Constraint) ==
  IF Constraint THEN g
  ELSE Emit(g, Rec("warn", "", "Constraint not met", Standard, << >>))

(***************************************************************************)
(* MADT field validators.                                                  *)
(***************************************************************************)
ARM_PPI_ID_MIN == 16

ARM_PPI_ID_MAX == 31

ARM_PPI_ID_EXTENDED_MIN == 1056

ARM_PPI_ID_EXTENDED_MAX == 1119

ARM_PPI_ID_PMBIRQ == 21

ValidateGICDSystemVectorBase(Ptr, g) ==
  IF ~InBuf(Buf, Ptr, 4) THEN [g EXCEPT !.oob = TRUE]
  ELSE AssertConstraint(g, "ACPI", ReadUnaligned32(Buf, Ptr) = 0)

ValidateSpeOverflowInterrupt(Ptr, g) ==
  IF ~InBuf(Buf, Ptr, 2) THEN [g EXCEPT !.oob = TRUE]
  ELSE
    LET SpeOverflowInterrupt == ReadUnaligned16(Buf, Ptr) IN
    IF SpeOverflowInterrupt = 0 THEN g
    ELSE
      LET g1 == AssertConstraint(g, "ACPI", SpeOverflowInterrupt >= ARM_PPI_ID_MIN)
          g2 == AssertConstraint(g1, "ACPI",
                  \/ SpeOverflowInterrupt <= ARM_PPI_ID_MAX
                  \/ SpeOverflowInterrupt >= ARM_PPI_ID_EXTENDED_MIN)
          g3 == AssertConstraint(g2, "ACPI", SpeOverflowInterrupt <= ARM_PPI_ID_EXTENDED_MAX)
      IN  WarnConstraint(g3, "SBSA", SpeOverflowInterrupt = ARM_PPI_ID_PMBIRQ)

(***************************************************************************)
(* The structure database operations.                                      *)
(***************************************************************************)
\* A start of the run that leaves the counters as the run before left them.
KeepAcpiStructCounts(StructDb, g) == g

ResetAcpiStructCounts(StructDb, g) ==
  [g EXCEPT !.Counts[StructDb.Db] = [t \in 1..StructDb.EntryCount |-> 0]]

SumAcpiStructCounts(StructDb, g) == SumSeq(g.Counts[StructDb.Db])

\* The build is for ARM or AARCH64, or for another architecture.
IsAcpiStructTypeValid(Type, StructDb) ==
  IF Type >= StructDb.EntryCount THEN FALSE
  ELSE
    LET Compatible ==
          IF Arch \in {"ARM", "AARCH64"}
          THEN StructDb.Entries[Type + 1].CompatArch
                 \cap (ARCH_COMPAT_ARM \cup ARCH_COMPAT_AARCH64)
          ELSE StructDb.Entries[Type + 1].CompatArch
    IN  Compatible # {}

RECURSIVE ValidateAcpiStructCountsFrom(_, _, _)
ValidateAcpiStructCount(Type, StructDb, g) ==
  IF IsAcpiStructTypeValid(Type, StructDb)
  THEN Emit(g, Rec("info", "count", "  %-*a : %d", StructDb.Entries[Type + 1].Name,
                   << g.Counts[StructDb.Db][Type + 1] >>))
  ELSE IF g.Counts[StructDb.Db][Type + 1] > 0
  THEN [AcpiError(g, "value",
          "%a Structure is not valid for the target architecture (found %d)",
          StructDb.Entries[Type + 1].Name, << g.Counts[StructDb.Db][Type + 1] >>)
          EXCEPT !.ret = 0]
  ELSE g

ValidateAcpiStructCountsFrom(Type, StructDb, g) ==
  IF Type >= StructDb.EntryCount THEN g
  ELSE CHOOSE r \in
         { ValidateAcpiStructCountsFrom(Type + 1, StructDb, h) :
             h \in { ValidateAcpiStructCount(Type, StructDb, g) } } : TRUE

ValidateAcpiStructCounts(StructDb, g) ==
  ValidateAcpiStructCountsFrom(0, StructDb,
    [Emit(g, Rec("info", "", "Table Breakdown:", "", << >>)) EXCEPT !.ret = 1])

\* The ghost history notes the type of every structure that is dispatched.
NoteDispatch(Type, g) == [g EXCEPT !.hist.dispatch = Append(@, Type)]

ParseAcpiStruct(Indent, Ptr, StructDb, Offset_, Type, Length, g) ==
  IF Type >= StructDb.EntryCount
  THEN [AcpiError(g, "value", "Unknown %a. Type = %d", StructDb.Name, << Type >>)
          EXCEPT !.ret = 0]
  ELSE
    LET E == StructDb.Entries[Type + 1]
        g1 == Emit(NoteDispatch(Type, g),
                   Rec("item", "struct", "%*.a%a[%d] (+0x%x)", E.Name,
                       << Indent, g.Counts[StructDb.Db][Type + 1], Offset_ >>))
        g2 == [g1 EXCEPT !.Counts[StructDb.Db][Type + 1] = Add32(@, 1)]
    IN  IF E.ParserFunc # "NULL"
        THEN [CallParserFunc(E.ParserFunc, Ptr, Length, g2) EXCEPT !.ret = 1]
        ELSE IF E.ParserArray # << >>
        THEN [ParseAcpi(TRUE, Add32(Indent, g2.gIndent), "NULL", Ptr, Length,
                        E.ParserArray, g2) EXCEPT !.ret = 1]
        ELSE [Emit(g2, Rec("fatal", "", "Parsing of %a Structure is not implemented",
                           E.Name, << >>)) EXCEPT !.ret = 0]

(***************************************************************************)
(* The cross-structure validator.                                          *)
(*                                                                         *)
(* A list is its head address, its entries in list order and the pool      *)
(* addresses still free.  An entry is an ACPI_CROSS_ENTRY at address Addr   *)
(* whose Buffer, at BufAddr, is a copy of Size bytes of the item.          *)
(***************************************************************************)
InitializeListHead(ListHead) == [head |-> ListHead, entries |-> << >>, free |-> heap.free]

\* The bytes of the table at Item, Size of them.
CopyMem(Item, Size) == Bytes(Item, Size)

AcpiCrossValidatorAdd(UniqueList, Item, Size, Type, Offset_) ==
  IF Len(UniqueList.free) < 2
  THEN UniqueList                              \* EFI_OUT_OF_RESOURCES
  ELSE [UniqueList EXCEPT
          !.entries = Append(@, [Addr |-> UniqueList.free[1],
                                 BufAddr |-> UniqueList.free[2],
                                 Buffer |-> CopyMem(Item, Size),
                                 Size |-> Size, Type |-> Type, Offset |-> Offset_]),
          !.free = Tail(Tail(@))]

GetNextNode(List, i) ==
  IF i < Len(List.entries) THEN List.entries[i + 1].Addr ELSE List.head

GetPreviousNode(List, i) ==
  IF i > 1 THEN List.entries[i - 1].Addr ELSE List.head

\* The memory of entry i: the LIST_ENTRY links, then Buffer, Size, Type, Offset.
ACPI_CROSS_ENTRY(List, i) ==
  LET E == List.entries[i]
  IN  LE64(GetNextNode(List, i)) \o LE64(GetPreviousNode(List, i))
        \o LE64(E.BufAddr) \o LE64(E.Size) \o LE32(E.Type) \o LE32(E.Offset)

\* The comparators read through the pointers they are given; Id1 and Id2
\* are the memory at those pointers.
GicIdCompare(Id1, Id2) ==
  IF ReadUnaligned32(Id1, 0) = ReadUnaligned32(Id2, 0) THEN 0 ELSE -1

GtFrameNumberCompare(Frame1, Frame2) ==
  IF Read8(Frame1, 0) = Read8(Frame2, 0) THEN 0 ELSE -1

CallCompareFunction(CompareFunction, a, b) ==
  CASE CompareFunction = "GicIdCompare" -> GicIdCompare(a, b)
    [] CompareFunction = "GtFrameNumberCompare" -> GtFrameNumberCompare(a, b)

\* Arguments of a formatted message, and their binding to the conversion
\* specifiers of the format in order; a specifier beyond the last argument
\* passed is bound to an argument that was not given.
StrArg(s) == [given |-> TRUE, s |-> s, n |-> 0]

IntArg(n) == [given |-> TRUE, s |-> "", n |-> n]

NotGiven == [given |-> FALSE, s |-> "", n |-> 0]

BindArgs(Specs, Args) ==
  [k \in 1..Len(Specs) |->
     [spec |-> Specs[k], arg |-> IF k <= Len(Args) THEN Args[k] ELSE NotGiven]]

AllUniqueSpecs == << "%a", "%p", "(table+0x%x)", "%p", "(table+0x%x)", "%s" >>

AllUniqueError(StructureName, EntryA, EntryB, FieldName, g) ==
  LET Args == << StrArg(StructureName), IntArg(EntryA.Offset),
                 IntArg(EntryB.Offset), StrArg(FieldName) >>
      Bound == BindArgs(AllUniqueSpecs, Args)
      g1 == AcpiError(g, "cross",
              "ERROR: %a structures %p (table+0x%x) and %p (table+0x%x) have the same %s",
              StructureName, Bound)
  IN  IF \E k \in 1..Len(Bound) : ~Bound[k].arg.given
      THEN [g1 EXCEPT !.oob = TRUE]
      ELSE g1

RECURSIVE AllUniqueFrom(_, _, _, _, _, _, _)
AllUniqueFrom(A, B, UniqueList, CompareFunction, StructureName, FieldName, g) ==
  IF A > Len(UniqueList.entries) THEN g
  ELSE IF B > Len(UniqueList.entries)
  THEN AllUniqueFrom(A + 1, A + 2, UniqueList, CompareFunction, StructureName, FieldName, g)
  ELSE
    LET CompareResult ==
          CallCompareFunction(CompareFunction, ACPI_CROSS_ENTRY(UniqueList, A),
                              ACPI_CROSS_ENTRY(UniqueList, B))
        g1 == IF CompareResult = 0
              THEN [AllUniqueError(StructureName, UniqueList.entries[A],
                                   UniqueList.entries[B], FieldName, g)
                      EXCEPT !.ret = 0]
              ELSE g
    IN  AllUniqueFrom(A, B + 1, UniqueList, CompareFunction, StructureName, FieldName, g1)

AcpiCrossValidatorAllUnique(UniqueList, CompareFunction, StructureName, FieldName, g) ==
  AllUniqueFrom(1, 2, UniqueList, CompareFunction, StructureName, FieldName,
                [g EXCEPT !.ret = 1])

\* FreePool on the pool of a list: the address is back among the free ones, which are kept in
\* ascending order.
ReturnToPool(free, Addr) ==
  SelectSeq(free, LAMBDA a : a < Addr) \o << Addr >> \o SelectSeq(free, LAMBDA a : a > Addr)

\* The loop of AcpiCrossValidatorDelete: the first entry loses its buffer,
\* leaves the list and is freed, until the list is empty.
RECURSIVE AcpiCrossValidatorDelete(_)
AcpiCrossValidatorDelete(List) ==
  IF List.entries = << >> THEN List
  ELSE AcpiCrossValidatorDelete(
         [List EXCEPT !.entries = Tail(@),
                      !.free = ReturnToPool(ReturnToPool(@, List.entries[1].BufAddr),
                                        List.entries[1].Addr)])

(***************************************************************************)
(* Member integrity of the log library: a member of zero length, or one    *)
(* that extends past the end of its buffer, is reported as a length error  *)
(* and the check returns TRUE.                                             *)
(***************************************************************************)
AssertMemberIntegrity(Offset_, Length, Ptr, BufferSize, g) ==
  IF Length = 0
  THEN [AcpiError(g, "length", "Structure has zero length", "", << Offset_ >>)
          EXCEPT !.ret = 1]
  ELSE IF SumExceeds(Offset_, Length, BufferSize)
  THEN [AcpiError(g, "length", "Structure extends beyond its buffer", "",
                  << Offset_, Length, BufferSize >>)
          EXCEPT !.ret = 1]
  ELSE [g EXCEPT !.ret = 0]

(***************************************************************************)
(* MADT: uniqueness of a field across the structures of one type.          *)
(***************************************************************************)
\* Offset and size of a member of the packed structure a descriptor table
\* describes.
OFFSET_OF(Parser, NameStr) ==
  Parser[CHOOSE i \in 1..Len(Parser) : Parser[i].NameStr = NameStr].Offset

FIELD_SIZE_OF(Parser, NameStr) ==
  Parser[CHOOSE i \in 1..Len(Parser) : Parser[i].NameStr = NameStr].Length

MadtType == << "Madt", "MadtInterruptControllerType" >>

MadtLength == << "Madt", "MadtInterruptControllerLength" >>

RECURSIVE ValidateFieldUniqueWalk(_, _, _, _, _, _, _)
RECURSIVE ValidateFieldUniqueAdd(_, _, _, _, _, _, _)

ValidateFieldUniqueWalk(Ptr, Length, StructOffset, FieldOffset, FieldSize, StructMeta, g) ==
  IF ~Lt32(StructOffset, Length) THEN g
  ELSE ValidateFieldUniqueAdd(Ptr, Length, StructOffset, FieldOffset, FieldSize,
         StructMeta,
         ParseAcpi(FALSE, 0, "NULL", Ptr + StructOffset, Sub32(Length, StructOffset),
                   MadtInterruptControllerHeaderParser, g))

\* ValidateFieldUnique, lines 362-376: the rest of one iteration of the
\* loop, after the structure header has been parsed.
ValidateFieldUniqueAdd(Ptr, Length, StructOffset, FieldOffset, FieldSize, StructMeta, g) ==
  IF g.slots[MadtType] = NULL \/ g.slots[MadtLength] = NULL
  THEN [g EXCEPT !.oob = TRUE]                 \* load through a null pointer
  ELSE IF Read8(Buf, g.slots[MadtLength]) = 0
  THEN [g EXCEPT !.hang = TRUE]                \* StructOffset never advances
  ELSE ValidateFieldUniqueWalk(Ptr, Length,
         Add32(StructOffset, Read8(Buf, g.slots[MadtLength])),
         FieldOffset, FieldSize, StructMeta,
         IF /\ Read8(Buf, g.slots[MadtType]) = StructMeta.Type
            /\ Read8(Buf, g.slots[MadtLength]) > FieldOffset + FieldSize
         THEN [g EXCEPT !.UniqueList =
                 AcpiCrossValidatorAdd(@, Ptr + StructOffset + FieldOffset,
                   FieldSize, StructMeta.Type, StructOffset + FieldOffset)]
         ELSE g)

\* ValidateFieldUnique, lines 379-391: the list is checked and deleted.
ValidateFieldUniqueCheck(FieldName, StructMeta, g) ==
  IF g.oob \/ g.hang THEN g
  ELSE [AcpiCrossValidatorAllUnique(g.UniqueList, "GicIdCompare", StructMeta.Name,
                                    FieldName, g)
          EXCEPT !.UniqueList = AcpiCrossValidatorDelete(@),
                 !.hist.lists = Append(@, g.UniqueList.entries)]

ValidateFieldUnique(Ptr, Length, StructOffset, FieldOffset, FieldSize, FieldName, StructMeta, g) ==
  ValidateFieldUniqueCheck(FieldName, StructMeta,
    ValidateFieldUniqueWalk(Ptr, Length, StructOffset, FieldOffset, FieldSize,
      StructMeta, [g EXCEPT !.UniqueList = InitializeListHead(heap.stack)]))

\* ParseAcpiMadt, lines 514-520.
OnlyOneGicd(g) ==
  IF g.Counts.Madt[13] > 1
  THEN AcpiError(g, "cross", "Only one %a must be present", MadtStructs[13].Name, << >>)
  ELSE g

(***************************************************************************)
(* PPTT field validators.                                                  *)
(***************************************************************************)
PPTT_ARM_CCIDX_CACHE_NUMBER_OF_SETS_MAX == 16777216

PPTT_ARM_CACHE_NUMBER_OF_SETS_MAX == 32768

PPTT_ARM_CACHE_LINE_SIZE_MIN == 16

PPTT_ARM_CACHE_LINE_SIZE_MAX == 2048

\* The build is for ARM or AARCH64.
MDE_CPU_ARM_OR_AARCH64 == Arch \in ARM_AARCH64

RECURSIVE BitFieldCountOnes(_)
BitFieldCountOnes(n) == IF n = 0 THEN 0 ELSE (n % 2) + BitFieldCountOnes(n \div 2)

ValidateCacheNumberOfSetsArm(CacheNumberOfSets, g) ==
  IF ~Gt32(CacheNumberOfSets, PPTT_ARM_CCIDX_CACHE_NUMBER_OF_SETS_MAX)
  THEN g
  ELSE WarnConstraint(
         AssertConstraint(g, "ARMv8.3-CCIDX", FALSE), "No-ARMv8.3-CCIDX",
         ~Gt32(CacheNumberOfSets, PPTT_ARM_CACHE_NUMBER_OF_SETS_MAX))

ValidateCacheNumberOfSets(Ptr, g) ==
  IF MDE_CPU_ARM_OR_AARCH64
  THEN ValidateCacheNumberOfSetsArm(ReadUnaligned32(Buf, Ptr),
         AssertConstraint(g, "ACPI", ReadUnaligned32(Buf, Ptr) # 0))
  ELSE AssertConstraint(g, "ACPI", ReadUnaligned32(Buf, Ptr) # 0)

ValidateCacheAssociativity(Ptr, g) ==
  AssertConstraint(g, "ACPI", Read8(Buf, Ptr) # 0)

ValidateCacheLineSize(Ptr, g) ==
  IF MDE_CPU_ARM_OR_AARCH64
  THEN AssertConstraint(
         AssertConstraint(g, "ARM",
           /\ ReadUnaligned16(Buf, Ptr) >= PPTT_ARM_CACHE_LINE_SIZE_MIN
           /\ ReadUnaligned16(Buf, Ptr) <= PPTT_ARM_CACHE_LINE_SIZE_MAX),
         "ARM", BitFieldCountOnes(ReadUnaligned16(Buf, Ptr)) = 1)
  ELSE g

ValidateCacheAttributes(Ptr, g) ==
  AssertConstraint(g, "ACPI", Read8(Buf, Ptr) \div 32 = 0)

(***************************************************************************)
(* PPTT references.  The structure an entry of mRefList describes is read  *)
(* from the entry's Buffer, a copy of Size bytes; a load past the copy     *)
(* yields a byte of the undefined word g.junk and raises oob.                        *)
(***************************************************************************)
\* A search that matches no entry.
FindNothing(List, Off) == 0

\* The index of the first entry of the list at the offset, or 0.
FindOffset(List, Off) ==
  IF \E i \in 1..Len(List.entries) : List.entries[i].Offset = Off
  THEN CHOOSE i \in 1..Len(List.entries) :
         /\ List.entries[i].Offset = Off
         /\ \A j \in 1..(i - 1) : List.entries[j].Offset # Off
  ELSE 0

StructByte(Found, k, g) ==
  IF k < Len(Found.Buffer) THEN Found.Buffer[k + 1] ELSE g.junk[(k % 4) + 1]

StructLoad(Found, n, g) ==
  IF n <= Len(Found.Buffer) THEN g ELSE [g EXCEPT !.oob = TRUE]

StructType(Found, g) == StructByte(Found, 0, g)

\* Flags.NodeIsALeaf, bit 3 of the flags of a Processor Hierarchy Node.
NeverALeaf(Found, g) == FALSE

NodeIsALeaf(Found, g) == (StructByte(Found, 4, g) \div 8) % 2 = 1

StructParent(Found, g) ==
  ReadUnaligned32(<< StructByte(Found, 8, g), StructByte(Found, 9, g),
                     StructByte(Found, 10, g), StructByte(Found, 11, g) >>, 0)

\* A walk that follows no reference and reports nothing.
FollowNothing(StructsVisited, RefCount, StructFound, g) == g

\* ValidateReference, lines 234-256: the bounded walk along the references.
RECURSIVE FollowReferences(_, _, _, _)
FollowReferences(StructsVisited, RefCount, StructFound, g) ==
  IF StructsVisited >= RefCount
  THEN AcpiError(g, "cross", "Reference loop detected", "", << >>)
  ELSE IF FindOffset(g.mRefList, StructParent(StructFound, g)) = 0
  THEN StructLoad(StructFound, 12, g)
  ELSE FollowReferences(StructsVisited + 1, RefCount,
         g.mRefList.entries[FindOffset(g.mRefList, StructParent(StructFound, g))],
         [StructLoad(StructFound, 12, g) EXCEPT !.hist.hops = @ + 1])

\* ValidateReference, lines 200-228: the checks on the structure found.
CheckReferenced(Found, g) ==
  IF StructType(Found, g) # Read8(Buf, g.slots[PpttType])
  THEN AcpiError(g, "cross", "type %d structure can't reference type %d structure",
                 "", << Read8(Buf, g.slots[PpttType]), StructType(Found, g) >>)
  ELSE IF StructType(Found, g) = 0 /\ NodeIsALeaf(Found, g)
  THEN AcpiError(StructLoad(Found, 8, g), "cross",
                 "May not reference a 'leaf' Processor Hierarchy Node.", "", << >>)
  ELSE FollowReferences(0, Len(g.mRefList.entries), Found,
                        IF StructType(Found, g) = 0 THEN StructLoad(Found, 8, g) ELSE g)

\* ValidateReference, lines 182-200: the search for the referenced offset.
\* A search that fails leaves Found at the last entry visited, and
\* uninitialised when the list is empty.  The ghost g.hist.through notes the
\* pointer line 200 reads the structure through: the entry found, the last
\* entry visited or the unset local.
FindReferenced(Reference, g) ==
  IF FindOffset(g.mRefList, Reference) # 0
  THEN CheckReferenced(g.mRefList.entries[FindOffset(g.mRefList, Reference)],
                       [g EXCEPT !.hist.through = "found"])
  ELSE IF g.mRefList.entries = << >>
  THEN [AcpiError(g, "cross", "Referenced offset 0x%x does contain a structure", "",
                  << Reference >>) EXCEPT !.oob = TRUE, !.hist.through = "unset"]
  ELSE CheckReferenced(g.mRefList.entries[Len(g.mRefList.entries)],
         [AcpiError(g, "cross", "Referenced offset 0x%x does contain a structure", "",
                    << Reference >>) EXCEPT !.hist.through = "last"])

\* The ghost history notes each validated reference: the address of the
\* field, the records the validation added to the log, the hops it
\* followed, whether a structure was indexed at the referenced offset and
\* the pointer the referenced structure was read through.
NoteReference(Ptr, before, r) ==
  [r EXCEPT !.hist.refs =
     Append(@, [Ptr |-> Ptr, Reference |-> ReadUnaligned32(Buf, Ptr),
                first |-> Len(before.log) + 1, last |-> Len(r.log),
                hops |-> r.hist.hops,
                indexed |-> FindOffset(before.mRefList, ReadUnaligned32(Buf, Ptr)) # 0,
                through |-> r.hist.through])]

ValidateReference(Ptr, g) ==
  NoteReference(Ptr, g,
    IF ReadUnaligned32(Buf, Ptr) = 0
    THEN [g EXCEPT !.hist.hops = 0, !.hist.through = "none"]
    ELSE FindReferenced(ReadUnaligned32(Buf, Ptr),
                        [g EXCEPT !.hist.hops = 0, !.hist.through = "none"]))

ValidatePrivateResource(PrivResource, g) ==
  IF FindOffset(g.mRefList, PrivResource) = 0
  THEN AcpiError(g, "cross", "PPTT structure (offset=0x%x) does not exist.", "",
                 << PrivResource >>)
  ELSE IF StructType(g.mRefList.entries[FindOffset(g.mRefList, PrivResource)], g)
            \notin {1, 2}
  THEN AcpiError(g, "cross",
         "Private resource (offset=0x%x) has bad type=%d (expected %d or %d)", "",
         << PrivResource,
            StructType(g.mRefList.entries[FindOffset(g.mRefList, PrivResource)], g),
            1, 2 >>)
  ELSE g

\* DumpProcessorHierarchyNodeStructure, lines 413-427: the loop over the
\* private resources, from Index_ on.
RECURSIVE DumpPrivateResources(_, _, _, _, _)
DumpPrivateResource(Ptr, Offset_, Index_, g) ==
  IF ConsistencyCheck
  THEN ValidatePrivateResource(ReadUnaligned32(Buf, Ptr + Offset_),
         Emit(g, Rec("info", "", "Private resources [%d] 0x%x", "",
                     << Index_, ReadUnaligned32(Buf, Ptr + Offset_) >>)))
  ELSE Emit(g, Rec("info", "", "Private resources [%d] 0x%x", "",
                   << Index_, ReadUnaligned32(Buf, Ptr + Offset_) >>))

DumpPrivateResourcesChecked(Index_, Offset_, Ptr, Length, g) ==
  IF g.ret = 1 THEN g
  ELSE DumpPrivateResources(Index_ + 1, Add32(Offset_, 4), Ptr, Length,
                            DumpPrivateResource(Ptr, Offset_, Index_, g))

DumpPrivateResources(Index_, Offset_, Ptr, Length, g) ==
  IF ~Lt32(Index_, ReadUnaligned32(Buf, g.slots[NumberOfPrivateResources])) THEN g
  ELSE DumpPrivateResourcesChecked(Index_, Offset_, Ptr, Length,
         AssertMemberIntegrity(Offset_, 4, Ptr, Length, g))

DumpProcessorHierarchyNodeParsed(Ptr, Length, g) ==
  IF g.slots[NumberOfPrivateResources] = NULL
  THEN AcpiError(g, "parse", "Failed to parse processor hierarchy", "", << >>)
  ELSE DumpPrivateResources(0, g.ret, Ptr, Length, g)

DumpProcessorHierarchyNodeStructure(Ptr, Length, g) ==
  DumpProcessorHierarchyNodeParsed(Ptr, Length,
    ParseAcpi(TRUE, 2, "NULL", Ptr, Length, ProcessorHierarchyNodeStructureParser, g))

(***************************************************************************)
(* IORT validators and node handlers.  A load through a capture slot that  *)
(* is null raises oob and yields the undefined word g.junk.                *)
(***************************************************************************)
ValidateItsIdMappingCount(Ptr, g) ==
  AssertConstraint(g, "ACPI", ReadUnaligned32(Buf, Ptr) = 0)

ValidatePmcgIdMappingCount(Ptr, g) ==
  AssertConstraint(g, "ACPI", ~Gt32(ReadUnaligned32(Buf, Ptr), 1))

ValidateItsIdArrayReference(Ptr, g) ==
  AssertConstraint(g, "ACPI", ReadUnaligned32(Buf, Ptr) = 0)

Deref32(g, Slot) ==
  IF g.slots[Slot] = NULL THEN ReadUnaligned32(g.junk, 0)
  ELSE ReadUnaligned32(Buf, g.slots[Slot])

Deref16(g, Slot) ==
  IF g.slots[Slot] = NULL THEN ReadUnaligned16(g.junk, 0)
  ELSE ReadUnaligned16(Buf, g.slots[Slot])

NullLoad(g, Slot) == IF g.slots[Slot] = NULL THEN [g EXCEPT !.oob = TRUE] ELSE g

\* Ptr + v for an unsigned v: 2^31 or more lands outside the table, at an
\* address the model keeps negative.
PtrAdd(Ptr, v) == IF v < 0 \/ Ptr < 0 THEN NULL + NULL ELSE Ptr + v

\* The loop over the elements of an array of a node (lines 278-291,
\* 330-344, 347-360 and 432-446): the integrity check, the item line and the
\* parse of the element.  The walk ends at an element outside the buffer.
RECURSIVE DumpIortArray(_, _, _, _, _, _, _, _)
DumpIortArray(Label, Parser, Index_, Count, Offset_, Ptr, Length, g) ==
  IF ~Lt32(Index_, Count) THEN g
  ELSE CHOOSE r \in
    { IF h.ret = 1 THEN h
      ELSE IF ~InBuf(Buf, PtrAdd(Ptr, Offset_), 1) THEN [h EXCEPT !.oob = TRUE]
      ELSE CHOOSE r2 \in
        { DumpIortArray(Label, Parser, Index_ + 1, Count, Add32(Offset_, q.ret), Ptr,
                        Length, q) :
            q \in { ParseAcpi(TRUE, 4, "NULL", Ptr + Offset_, Sub32(Length, Offset_),
                              Parser,
                              Emit(h, Rec("item", "", Label, "", << Index_, Offset_ >>))) }
        } : TRUE :
        h \in { AssertMemberIntegrity(Offset_, 1, Ptr, Length, g) } } : TRUE

DumpIortNodeIdMappings(Ptr, Length, MappingCount, g) ==
  DumpIortArray("    ID Mapping[%d] (+0x%x)", IortNodeIdMappingParser, 0, MappingCount,
                0, Ptr, Length, g)

\* The call every node handler but the ITS one ends with: both arguments
\* are loaded through IortIdMappingOffset and IortIdMappingCount.
DumpIdMappingsOfNode(Ptr, Length, g) ==
  DumpIortNodeIdMappings(
    PtrAdd(Ptr, Deref32(g, IortSlot("IortIdMappingOffset"))),
    Sub32(Length, Deref32(g, IortSlot("IortIdMappingOffset"))),
    Deref32(g, IortSlot("IortIdMappingCount")),
    NullLoad(NullLoad(g, IortSlot("IortIdMappingOffset")), IortSlot("IortIdMappingCount")))

DumpSmmuInterrupts(Ptr, Length, g) ==
  DumpIortArray("    PMU Interrupts Array[%d] (+0x%x)", InterruptArrayParser, 0,
    Deref32(g, IortSlot("PmuInterruptCount")), Deref32(g, IortSlot("PmuInterruptOffset")),
    Ptr, Length,
    DumpIortArray("    Context Interrupts Array[%d] (+0x%x)", InterruptArrayParser, 0,
      Deref32(g, IortSlot("InterruptContextCount")),
      Deref32(g, IortSlot("InterruptContextOffset")), Ptr, Length, g))

DumpIortNodeSmmuV1V2Parsed(Ptr, Length, g) ==
  IF \E n \in { "InterruptContextCount", "InterruptContextOffset", "PmuInterruptCount",
               "PmuInterruptOffset" } : g.slots[IortSlot(n)] = NULL
  THEN AcpiError(g, "parse", "Failed to parse the SMMUv1/2 node", "", << >>)
  ELSE DumpIdMappingsOfNode(Ptr, Length, DumpSmmuInterrupts(Ptr, Length, g))

DumpIortNodeSmmuV1V2(Ptr, Length, g) ==
  DumpIortNodeSmmuV1V2Parsed(Ptr, Length,
    ParseAcpi(TRUE, 2, "NULL", Ptr, Length, IortNodeSmmuV1V2Parser, g))

DumpIortNodeSmmuV3(Ptr, Length, g) ==
  DumpIdMappingsOfNode(Ptr, Length,
    ParseAcpi(TRUE, 2, "NULL", Ptr, Length, IortNodeSmmuV3Parser, g))

DumpIortNodeItsParsed(Ptr, Length, g) ==
  IF g.slots[IortSlot("ItsCount")] = NULL
  THEN AcpiError(g, "parse", "Failed to parse ITS node", "", << >>)
  ELSE DumpIortArray("    GIC ITS Identifier Array[%d] (+0x%x)", ItsIdParser, 0,
                     Deref32(g, IortSlot("ItsCount")), g.ret, Ptr, Length, g)

DumpIortNodeIts(Ptr, Length, g) ==
  DumpIortNodeItsParsed(Ptr, Length,
    ParseAcpi(TRUE, 2, "NULL", Ptr, Length, IortNodeItsParser, g))

\* The number of bytes before the first NUL among the Max bytes at Ptr.
AsciiStrnLenS(Ptr, Max) ==
  IF \E k \in 0..(Max - 1) : Buf[Ptr + k + 1] = 0
  THEN CHOOSE k \in 0..(Max - 1) :
         Buf[Ptr + k + 1] = 0 /\ \A j \in 0..(k - 1) : Buf[Ptr + j + 1] # 0
  ELSE Max

DumpIortNodeNamedComponentParsed(Ptr, Length, g) ==
  DumpIdMappingsOfNode(Ptr, Length,
    Emit(Emit(g, Rec("field", "", "Device Object Name", "", << >>)),
         Rec("info", "", "%.*a", "",
             << AsciiStrnLenS(Ptr + g.ret, Sub32(Length, g.ret)) >>)))

DumpIortNodeNamedComponent(Ptr, Length, g) ==
  DumpIortNodeNamedComponentParsed(Ptr, Length,
    ParseAcpi(TRUE, 2, "NULL", Ptr, Length, IortNodeNamedComponentParser, g))

DumpIortNodeRootComplex(Ptr, Length, g) ==
  DumpIdMappingsOfNode(Ptr, Length,
    ParseAcpi(TRUE, 2, "NULL", Ptr, Length, IortNodeRootComplexParser, g))

DumpIortNodePmcg(Ptr, Length, g) ==
  DumpIdMappingsOfNode(Ptr, Length,
    ParseAcpi(TRUE, 2, "NULL", Ptr, Length, IortNodePmcgParser, g))

CallPrintFormatter(PrintFormatter, Format, Ptr, g) ==
  CASE PrintFormatter = "Dump3Chars" -> Emit(Load(g, Ptr, 3), Rec("info", "", "%c%c%c", "", Bytes(Ptr, 3)))
    [] PrintFormatter = "Dump4Chars" -> Emit(Load(g, Ptr, 4), Rec("info", "", "%c%c%c%c", "", Bytes(Ptr, 4)))
    [] PrintFormatter = "Dump6Chars" -> Emit(Load(g, Ptr, 6), Rec("info", "", "%c%c%c%c%c%c", "", Bytes(Ptr, 6)))
    [] PrintFormatter = "Dump8Chars" -> Emit(Load(g, Ptr, 8), Rec("info", "", "%c%c%c%c%c%c%c%c", "", Bytes(Ptr, 8)))
    [] PrintFormatter = "DumpGas" -> DumpGas(Format, Ptr, g)

CallFieldValidator(FieldValidator, Ptr, g) ==
  CASE FieldValidator = "ValidateGICDSystemVectorBase" -> ValidateGICDSystemVectorBase(Ptr, g)
    [] FieldValidator = "ValidateSpeOverflowInterrupt" -> ValidateSpeOverflowInterrupt(Ptr, g)
    [] FieldValidator = "ValidateReference" -> ValidateReference(Ptr, g)
    [] FieldValidator = "ValidateCacheNumberOfSets" -> ValidateCacheNumberOfSets(Ptr, g)
    [] FieldValidator = "ValidateCacheAssociativity" -> ValidateCacheAssociativity(Ptr, g)
    [] FieldValidator = "ValidateCacheAttributes" -> ValidateCacheAttributes(Ptr, g)
    [] FieldValidator = "ValidateCacheLineSize" -> ValidateCacheLineSize(Ptr, g)
    [] FieldValidator = "ValidateItsIdMappingCount" -> ValidateItsIdMappingCount(Ptr, g)
    [] FieldValidator = "ValidatePmcgIdMappingCount" -> ValidatePmcgIdMappingCount(Ptr, g)
    [] FieldValidator = "ValidateItsIdArrayReference" -> ValidateItsIdArrayReference(Ptr, g)

CallParserFunc(ParserFunc, Ptr, Length, g) ==
  CASE ParserFunc = "DumpProcessorHierarchyNodeStructure" ->
         DumpProcessorHierarchyNodeStructure(Ptr, Length, g)
    [] ParserFunc = "DumpIortNodeIts" -> DumpIortNodeIts(Ptr, Length, g)
    [] ParserFunc = "DumpIortNodeNamedComponent" ->
         DumpIortNodeNamedComponent(Ptr, Length, g)
    [] ParserFunc = "DumpIortNodeRootComplex" -> DumpIortNodeRootComplex(Ptr, Length, g)
    [] ParserFunc = "DumpIortNodeSmmuV1V2" -> DumpIortNodeSmmuV1V2(Ptr, Length, g)
    [] ParserFunc = "DumpIortNodeSmmuV3" -> DumpIortNodeSmmuV3(Ptr, Length, g)
    [] ParserFunc = "DumpIortNodePmcg" -> DumpIortNodePmcg(Ptr, Length, g)

(***************************************************************************)
(* The program state as one record, and its write-back.                    *)
(***************************************************************************)
Parsers ==
  { AcpiHeaderParser, GasParser, MadtParser, MadtInterruptControllerHeaderParser,
    PpttParser, ProcessorTopologyStructureHeaderParser,
    ProcessorHierarchyNodeStructureParser, IortParser, IortNodeSmmuV1V2Parser,
    IortNodeItsParser }

SlotNames ==
  UNION { { P[i].ItemPtr : i \in 1..Len(P) } : P \in Parsers } \ { NoSlot }

G == [gIndent |-> gIndent, slots |-> slots, Counts |-> Counts,
      mRefList |-> mRefList, UniqueList |-> InitializeListHead(heap.stack),
      log |-> log, oob |-> FALSE, hang |-> FALSE, ret |-> ret, hist |-> hist,
      junk |-> << 0, 0, 0, 0 >>]

\* The pool addresses of the entries of a list and of their buffers.
Owned(List) ==
  UNION { { List.entries[i].Addr, List.entries[i].BufAddr } : i \in 1..Len(List.entries) }

\* Write the state back and move to position next; a call that never
\* returns ends in "hang", and one that loaded undefined bytes either went
\* on with whatever it loaded or was stopped by a fault.
Commit(g, next) ==
  /\ gIndent' = g.gIndent
  /\ slots' = g.slots
  /\ Counts' = g.Counts
  /\ mRefList' = g.mRefList
  /\ log' = g.log
  /\ ret' = g.ret
  /\ hist' = [g.hist EXCEPT !.undefined = @ \/ g.oob,
                             !.live = Owned(g.mRefList) \cup Owned(g.UniqueList)]
  /\ pc' \in IF g.hang THEN {"hang"} ELSE IF g.oob THEN {next, "fault"} ELSE {next}

NoCounts == [Madt |-> << >>, Pptt |-> << >>, Iort |-> << >>, Gtdt |-> << >>]

\* run counts the runs of the entry point, first is the output of the first
\* run, undefined tells that a run loaded undefined memory and live holds
\* the pool addresses the lists of the validator own.
NoHistory ==
  [calls |-> {}, lists |-> << >>, refs |-> << >>, dispatch |-> << >>, prior |-> << >>,
   hops |-> 0, run |-> 1, first |-> << >>, undefined |-> FALSE, live |-> {},
   through |-> "none"]

NoList == [head |-> 0, entries |-> << >>, free |-> << >>]

(***************************************************************************)
(* Specification SpecParse: one call of an entry point of the generic      *)
(* parser, over a table of a header followed by one Generic Address        *)
(* Structure.                                                             *)
(***************************************************************************)
SampleTable ==
  << 65, 80, 73, 67 >> \o LE32(48) \o << 1, 0 >> \o << 65, 82, 77, 76, 84, 68 >>
    \o << 69, 68, 75, 50, 32, 32, 32, 32 >> \o LE32(1) \o << 65, 82, 77, 32 >>
    \o LE32(2) \o << 0, 64, 0, 4 >> \o LE64(3840)

IndentValues == {0, 2, 4}

ParserNamed(n) ==
  CASE n = "AcpiHeaderParser" -> AcpiHeaderParser
    [] n = "GasParser" -> GasParser

ParseCalls ==
  [Trace : BOOLEAN, Indent : IndentValues, AsciiName : {"NULL", "GAS"},
   Ptr : {0, 36}, Length : 0..Len(SampleTable),
   Parser : {"AcpiHeaderParser", "GasParser"}, Type : {0, 11, 12, 16}]

NoCall ==
  [Trace |-> FALSE, Indent |-> 0, AsciiName |-> "NULL", Ptr |-> 0, Length |-> 0,
   Parser |-> "AcpiHeaderParser", Type |-> 0]

InitParse ==
  /\ op \in {"ParseAcpi", "DumpGasStruct", "DumpGas", "DumpAcpiHeader",
             "ParseAcpiHeader", "ParseAcpiStruct"}
  /\ pc = "start"
  /\ Buf = SampleTable
  /\ AcpiTableLength = Len(SampleTable)
  /\ ConsistencyCheck \in BOOLEAN
  /\ call \in ParseCalls
  /\ call.Ptr + call.Length <= Len(Buf)
  /\ op = "DumpGasStruct" =>
       call.Ptr = 36 /\ call.Parser = "GasParser" /\ call.Trace /\ call.AsciiName = "NULL"
  /\ op = "DumpGas" => call = [NoCall EXCEPT !.Ptr = 36]
  /\ op \in {"DumpAcpiHeader", "ParseAcpiHeader"} => call = NoCall
  /\ op = "ParseAcpiStruct" =>
       call.Ptr = 0 /\ call.Parser = "AcpiHeaderParser" /\ call.Trace /\ call.AsciiName = "NULL"
  /\ op # "ParseAcpiStruct" => call.Type = 0
  /\ Arch = "AARCH64"
  /\ Offset = 0
  /\ BodyOffset = 0
  /\ Index = 0
  /\ gIndent \in IndentValues
  /\ \E stale \in {NULL, 0} : slots = [n \in SlotNames |-> stale]
  /\ Counts = [NoCounts EXCEPT !.Madt = Zeros(Len(MadtStructs))]
  /\ mRefList = NoList
  /\ heap = [free |-> << >>, stack |-> 0, static |-> 0]
  /\ log = << >>
  /\ ret = 0
  /\ hist = NoHistory

Untouched == UNCHANGED << op, Buf, AcpiTableLength, ConsistencyCheck, Arch, heap, call >>

CallParseAcpi ==
  /\ pc = "start" /\ op = "ParseAcpi"
  /\ Commit(ParseAcpi(call.Trace, call.Indent, call.AsciiName, call.Ptr,
                      call.Length, ParserNamed(call.Parser), G), "done")
  /\ UNCHANGED << Offset, BodyOffset, Index >>
  /\ Untouched

CallDumpGasStruct ==
  /\ pc = "start" /\ op = "DumpGasStruct"
  /\ Commit(DumpGasStruct(call.Ptr, call.Indent, call.Length, G), "done")
  /\ UNCHANGED << Offset, BodyOffset, Index >>
  /\ Untouched

CallDumpGas ==
  /\ pc = "start" /\ op = "DumpGas"
  /\ Commit(DumpGas("NULL", call.Ptr, G), "done")
  /\ UNCHANGED << Offset, BodyOffset, Index >>
  /\ Untouched

CallDumpAcpiHeader ==
  /\ pc = "start" /\ op = "DumpAcpiHeader"
  /\ Commit(DumpAcpiHeader(call.Ptr, G), "done")
  /\ UNCHANGED << Offset, BodyOffset, Index >>
  /\ Untouched

CallParseAcpiHeader ==
  /\ pc = "start" /\ op = "ParseAcpiHeader"
  /\ Commit(ParseAcpiHeader(call.Ptr, G), "done")
  /\ UNCHANGED << Offset, BodyOffset, Index >>
  /\ Untouched

CallParseAcpiStruct ==
  /\ pc = "start" /\ op = "ParseAcpiStruct"
  /\ Commit(ParseAcpiStruct(call.Indent, call.Ptr, MadtDatabase, call.Ptr,
                            call.Type, call.Length, G), "done")
  /\ UNCHANGED << Offset, BodyOffset, Index >>
  /\ Untouched

NextParse ==
  \/ CallParseAcpiStruct
  \/ CallParseAcpi
  \/ CallDumpGasStruct
  \/ CallDumpGas
  \/ CallDumpAcpiHeader
  \/ CallParseAcpiHeader

SpecParse == InitParse /\ [][NextParse]_vars

(***************************************************************************)
(* Specification SpecMadt: ParseAcpiMadt over tables of a MADT header and  *)
(* up to MaxMadtStructs interrupt controller structures.                   *)
(***************************************************************************)
MaxMadtStructs == 2

Gicc(CpuIf, Uid) ==
  << 11, 80, 0, 0 >> \o LE32(CpuIf) \o LE32(Uid) \o Zeros(68)

Gicd == << 12, 24, 0, 0 >> \o Zeros(20)

GicIts(Id) == << 15, 20, 0, 0 >> \o LE32(Id) \o Zeros(12)

MadtStructVariants ==
  { Gicc(0, 7), Gicc(1, 7), Gicc(1, 9), Gicd, GicIts(3),
    << 0, 8, 0, 0, 0, 0, 0, 0 >>,          \* Processor Local APIC
    << 16, 4, 0, 0 >>,                     \* a type the database does not know
    << 11, 0, 0, 0 >>,                     \* a GICC of declared length zero
    << 11, 1, 0, 0 >>,                     \* a GICC of declared length one
    << 12, 200, 0, 0 >> }                  \* a GICD declared longer than the table

RECURSIVE Flatten(_)
Flatten(ss) == IF ss = << >> THEN << >> ELSE Head(ss) \o Flatten(Tail(ss))

MadtTable(Structs) ==
  LET Body == Flatten(Structs)
  IN  << 65, 80, 73, 67 >> \o LE32(44 + Len(Body)) \o << 5, 0 >> \o Zeros(26)
        \o LE32(0) \o LE32(0) \o Body

MadtTables == { MadtTable(ss) : ss \in SeqsUpTo(MadtStructVariants, MaxMadtStructs) }

HeapLayouts ==
  { [free |-> [i \in 1..8 |-> 4096 + 64 * i], stack |-> 1048576, static |-> 2048] }

InitMadt ==
  /\ op = "ParseAcpiMadt"
  /\ pc = "start"
  /\ Buf \in MadtTables
  /\ AcpiTableLength \in {Len(Buf), Len(Buf) - 2, 20}
  /\ ConsistencyCheck \in BOOLEAN
  /\ Arch \in {"AARCH64", "X64"}
  /\ call \in { [NoCall EXCEPT !.Trace = t] : t \in BOOLEAN }
  /\ Offset = 0
  /\ BodyOffset = 0
  /\ Index = 0
  /\ gIndent = 0
  /\ slots = [n \in SlotNames |-> NULL]
  /\ \E c \in {0, 3} : Counts = [NoCounts EXCEPT !.Madt = [t \in 1..Len(MadtStructs) |-> c]]
  /\ mRefList = NoList
  /\ heap \in HeapLayouts
  /\ log = << >>
  /\ ret = 0
  /\ hist = [NoHistory EXCEPT !.prior = Counts.Madt]

\* ParseAcpiMadt up to its loop: the early return, the reset of the
\* counters and the parse of the table header.
MadtBodyFrom(g) ==
  /\ Commit(g, "loop")
  /\ Offset' = g.ret
  /\ BodyOffset' = g.ret

MadtBegin ==
  /\ pc = "start" /\ op = "ParseAcpiMadt"
  /\ IF ~call.Trace
     THEN /\ pc' = "done"
          /\ UNCHANGED << Offset, BodyOffset, gIndent, slots, Counts, mRefList,
                          log, ret, hist >>
     ELSE MadtBodyFrom(ParseAcpi(TRUE, 0, "MADT", 0, AcpiTableLength, MadtParser,
                                 ResetAcpiStructCounts(MadtDatabase, G)))
  /\ UNCHANGED Index
  /\ Untouched

\* One iteration of the loop over the interrupt controller structures:
\* the structure header is parsed (lines 446-453) and checked (455-468),
\* the structure is parsed and the offset advances (470-478).
MadtStructure ==
  /\ pc = "loop" /\ op = "ParseAcpiMadt"
  /\ Lt32(Offset, AcpiTableLength)
  /\ \E g1 \in { ParseAcpi(FALSE, 0, "NULL", Offset, Sub32(AcpiTableLength, Offset),
                           MadtInterruptControllerHeaderParser, G) } :
       IF g1.slots[MadtType] = NULL \/ g1.slots[MadtLength] = NULL
       THEN /\ Commit(AcpiError(g1, "parse",
                        "Failed to read the Interrupt Controller Structure header",
                        "", << >>), "done")
            /\ UNCHANGED Offset
       ELSE \E Type \in { Read8(Buf, g1.slots[MadtType]) },
               Length \in { Read8(Buf, g1.slots[MadtLength]) } :
            \E g2 \in { AssertMemberIntegrity(Offset, Length, 0, AcpiTableLength, g1) } :
              IF g2.ret = 1
              THEN /\ Commit(g2, "done")
                   /\ UNCHANGED Offset
              ELSE /\ Commit(ParseAcpiStruct(2, Offset, MadtDatabase, Offset, Type,
                                             Length, g2), "loop")
                   /\ Offset' = Add32(Offset, Length)
  /\ UNCHANGED << BodyOffset, Index >>
  /\ Untouched

\* The end of the loop and the checks that follow it (lines 481-522).
MadtFinish ==
  /\ pc = "loop" /\ op = "ParseAcpiMadt"
  /\ ~Lt32(Offset, AcpiTableLength)
  /\ IF ConsistencyCheck
     THEN \E g1 \in { ValidateAcpiStructCounts(MadtDatabase, G) } :
          \E g2 \in { ValidateFieldUnique(0, AcpiTableLength, BodyOffset,
                        FIELD_SIZE_OF(GicCParser, "ACPI Processor UID"),
                        OFFSET_OF(GicCParser, "ACPI Processor UID"),
                        "ACPI Processor UID", MadtStructs[12], g1) } :
          \E g3 \in { ValidateFieldUnique(0, AcpiTableLength, BodyOffset,
                        FIELD_SIZE_OF(GicITSParser, "GIC ITS ID"),
                        OFFSET_OF(GicITSParser, "GIC ITS ID"),
                        "GIC ITS ID", MadtStructs[16], g2) } :
          \E g4 \in { ValidateFieldUnique(0, AcpiTableLength, BodyOffset,
                        FIELD_SIZE_OF(GicMSIFrameParser, "MSI Frame ID"),
                        OFFSET_OF(GicMSIFrameParser, "MSI Frame ID"),
                        "GIC MSI Frame ID", MadtStructs[14], g3) } :
            Commit(OnlyOneGicd(g4), "done")
     ELSE Commit(G, "done")
  /\ UNCHANGED << Offset, BodyOffset, Index >>
  /\ Untouched

NextMadt == MadtBegin \/ MadtStructure \/ MadtFinish

SpecMadt == InitMadt /\ [][NextMadt]_vars

(***************************************************************************)
(* Specification SpecUnique: a client of the cross-structure validator     *)
(* that adds field values of a table to a list, checks the list for        *)
(* uniqueness once and deletes it.  The list is held in mRefList.          *)
(***************************************************************************)
MaxEntries == 3

UniqueTable == MadtTable(<< Gicc(0, 7), Gicc(1, 7), Gicc(1, 9) >>)

\* Pool addresses 64 bytes apart, and pool addresses 256 bytes apart.
UniqueHeapLayouts ==
  { [free |-> [i \in 1..(2 * MaxEntries) |-> 4096 + step * i], stack |-> 1048576,
     static |-> 2048] : step \in {64, 256} }

UniqueCalls ==
  [CompareFunction : {"GicIdCompare", "GtFrameNumberCompare"},
   StructureName : {"GICC"}, FieldName : {"ACPI Processor UID"}]

InitUnique ==
  /\ op = "CrossValidator"
  /\ pc = "idle"
  /\ Buf = UniqueTable
  /\ AcpiTableLength = Len(Buf)
  /\ ConsistencyCheck = TRUE
  /\ Arch = "AARCH64"
  /\ call \in UniqueCalls
  /\ Offset = 0
  /\ BodyOffset = 0
  /\ Index = 0
  /\ gIndent = 0
  /\ slots = [n \in SlotNames |-> NULL]
  /\ Counts = NoCounts
  /\ heap \in UniqueHeapLayouts
  /\ mRefList = InitializeListHead(heap.stack)
  /\ log = << >>
  /\ ret = 0
  /\ hist = NoHistory

UniqueAdd ==
  /\ pc = "idle" /\ op = "CrossValidator"
  /\ Len(mRefList.entries) < MaxEntries
  /\ \E Struct \in {44, 124, 204}, Member \in {4, 8}, Size \in {1, 4} :
       mRefList' = AcpiCrossValidatorAdd(mRefList, Struct + Member, Size, 11,
                                         Struct + Member)
  /\ UNCHANGED << pc, gIndent, slots, Counts, log, ret, hist, Offset, BodyOffset, Index >>
  /\ Untouched

UniqueAllUnique ==
  /\ pc = "idle" /\ op = "CrossValidator"
  /\ Commit(AcpiCrossValidatorAllUnique(mRefList, call.CompareFunction,
                                        call.StructureName, call.FieldName, G),
            "checked")
  /\ UNCHANGED << Offset, BodyOffset, Index >>
  /\ Untouched

UniqueDelete ==
  /\ pc \in {"idle", "checked"} /\ op = "CrossValidator"
  /\ mRefList' = AcpiCrossValidatorDelete(mRefList)
  /\ hist' = [hist EXCEPT !.lists = Append(@, mRefList.entries)]
  /\ pc' = "deleted"
  /\ UNCHANGED << gIndent, slots, Counts, log, ret, Offset, BodyOffset, Index >>
  /\ Untouched

NextUnique == UniqueAdd \/ UniqueAllUnique \/ UniqueDelete

SpecUnique == InitUnique /\ [][NextUnique]_vars

(***************************************************************************)
(* Specification SpecPptt: ParseAcpiPptt over tables of a header and up to *)
(* MaxPpttStructs processor topology structures.                           *)
(***************************************************************************)
MaxPpttStructs == 3

\* A Processor Hierarchy Node with no private resource.
Node(Flags, Parent) ==
  << 0, 20, 0, 0 >> \o LE32(Flags) \o LE32(Parent) \o LE32(0) \o LE32(0)

\* A Processor Hierarchy Node with one private resource.
NodeWith(Resource) ==
  << 0, 24, 0, 0 >> \o LE32(0) \o LE32(0) \o LE32(0) \o LE32(1) \o LE32(Resource)

Cache(NextLevel) ==
  << 1, 24, 0, 0 >> \o LE32(0) \o LE32(NextLevel) \o LE32(4096) \o LE32(64)
    \o << 4, 0 >> \o LE16(64)

\* Well-formed structures, and structures that end a table early.
PpttStructVariants ==
  { Node(0, 0), Node(0, 36), Node(0, 56), Node(0, 76), Node(0, 40), Node(8, 36),
    Cache(36) }

PpttBrokenVariants ==
  { NodeWith(56),
    << 0, 8, 0, 0, 0, 0, 0, 0 >>,          \* a node cut short before its Parent
    << 2, 0, 0, 0 >> }                     \* a structure of declared length zero

PpttStructLists ==
  SeqsUpTo(PpttStructVariants, MaxPpttStructs)
    \cup { Append(ss, b) : ss \in SeqsUpTo(PpttStructVariants, MaxPpttStructs - 1),
                           b \in PpttBrokenVariants }

PpttTable(Structs) ==
  << 80, 80, 84, 84 >> \o LE32(36 + Len(Flatten(Structs))) \o << 2, 0 >> \o Zeros(26)
    \o Flatten(Structs)

PpttTables == { PpttTable(ss) : ss \in PpttStructLists }

\* The words a load past the end of a pool buffer may yield.
JunkWords == { LE32(0), LE32(36), << 255, 255, 255, 255 >> }

InitPptt ==
  /\ op = "ParseAcpiPptt"
  /\ pc = "start"
  /\ Buf \in PpttTables
  /\ AcpiTableLength \in {Len(Buf)} \cup (IF Len(Buf) <= 60 THEN {Len(Buf) - 3} ELSE {})
  /\ ConsistencyCheck \in {TRUE} \cup {Len(Buf) > 60}
  /\ Arch \in {"AARCH64"} \cup (IF Len(Buf) <= 60 THEN {"X64"} ELSE {})
  /\ call \in { [NoCall EXCEPT !.Trace = t] : t \in {TRUE} \cup {Len(Buf) > 36} }
  /\ Offset = 0
  /\ BodyOffset = 0
  /\ Index = 0
  /\ gIndent = 0
  /\ slots = [n \in SlotNames |-> NULL]
  /\ Counts = [NoCounts EXCEPT !.Pptt = [t \in 1..Len(PpttStructs) |-> 3]]
  /\ heap \in HeapLayouts
  /\ mRefList = NoList
  /\ log = << >>
  /\ ret = 0
  /\ hist = [NoHistory EXCEPT !.prior = Counts.Pptt]

\* ParseAcpiPptt, lines 491-500: the early return; the reset of the
\* counters, the empty reference list and the first parse of the header.
PpttBegin ==
  /\ pc = "start" /\ op = "ParseAcpiPptt"
  /\ IF ~call.Trace
     THEN /\ pc' = "done"
          /\ UNCHANGED << Offset, gIndent, slots, Counts, mRefList, log, ret, hist >>
     ELSE \E g1 \in { ParseAcpi(FALSE, 0, "PPTT", 0, AcpiTableLength, PpttParser,
                        [ResetAcpiStructCounts(PpttDatabase, G)
                           EXCEPT !.mRefList = InitializeListHead(heap.static)]) } :
            /\ Commit(g1, "index")
            /\ Offset' = g1.ret
  /\ UNCHANGED << BodyOffset, Index >>
  /\ Untouched

\* An exit that returns without deleting the reference list.
PpttExitKeepsList(g) == [g EXCEPT !.hist.lists = Append(@, g.mRefList.entries)]

\* ParseAcpiPptt, lines 571-573.
PpttExit(g) == [g EXCEPT !.mRefList = AcpiCrossValidatorDelete(@),
                         !.hist.lists = Append(@, g.mRefList.entries)]

\* One iteration of the first loop, lines 502-536: the structure is checked
\* and added to the reference list.
PpttIndex ==
  /\ pc = "index" /\ op = "ParseAcpiPptt"
  /\ Lt32(Offset, AcpiTableLength)
  /\ \E g1 \in { ParseAcpi(FALSE, 0, "NULL", Offset, Sub32(AcpiTableLength, Offset),
                           ProcessorTopologyStructureHeaderParser, G) } :
       IF g1.slots[PpttType] = NULL \/ g1.slots[PpttLength] = NULL
       THEN /\ Commit(PpttExit(AcpiError(g1, "parse",
                        "Failed to parse processor topology", "", << >>)), "done")
            /\ UNCHANGED Offset
       ELSE \E Type \in { Read8(Buf, g1.slots[PpttType]) },
               Length \in { Read8(Buf, g1.slots[PpttLength]) } :
            \E g2 \in { AssertMemberIntegrity(Offset, Length, 0, AcpiTableLength, g1) } :
              IF g2.ret = 1
              THEN /\ Commit(PpttExit(g2), "done")
                   /\ UNCHANGED Offset
              ELSE /\ Commit([g2 EXCEPT !.mRefList =
                                AcpiCrossValidatorAdd(@, Offset, Length, Type, Offset)],
                             "index")
                   /\ Offset' = Add32(Offset, Length)
  /\ UNCHANGED << BodyOffset, Index >>
  /\ Untouched

\* The end of the first loop and the second parse of the header, line 539.
PpttIndexed ==
  /\ pc = "index" /\ op = "ParseAcpiPptt"
  /\ ~Lt32(Offset, AcpiTableLength)
  /\ \E g1 \in { ParseAcpi(TRUE, 0, "PPTT", 0, AcpiTableLength, PpttParser, G) } :
       /\ Commit(g1, "loop")
       /\ Offset' = g1.ret
  /\ UNCHANGED << BodyOffset, Index >>
  /\ Untouched

\* One iteration of the second loop, lines 542-564.
PpttStructure ==
  /\ pc = "loop" /\ op = "ParseAcpiPptt"
  /\ Lt32(Offset, AcpiTableLength)
  /\ \E junk \in JunkWords :
     \E g1 \in { ParseAcpi(FALSE, 0, "NULL", Offset, Sub32(AcpiTableLength, Offset),
                           ProcessorTopologyStructureHeaderParser,
                           [G EXCEPT !.junk = junk]) } :
       IF g1.slots[PpttType] = NULL \/ g1.slots[PpttLength] = NULL
       THEN /\ Commit(g1, "fault")                \* load through a null pointer
            /\ UNCHANGED Offset
       ELSE \E Type \in { Read8(Buf, g1.slots[PpttType]) },
               Length \in { Read8(Buf, g1.slots[PpttLength]) } :
              /\ Commit(ParseAcpiStruct(2, Offset, PpttDatabase, Offset, Type, Length, g1),
                        "loop")
              /\ Offset' = Add32(Offset, Length)
  /\ UNCHANGED << BodyOffset, Index >>
  /\ Untouched

\* The end of the second loop, lines 566-573.
PpttFinish ==
  /\ pc = "loop" /\ op = "ParseAcpiPptt"
  /\ ~Lt32(Offset, AcpiTableLength)
  /\ IF ConsistencyCheck
     THEN Commit(PpttExit(ValidateAcpiStructCounts(PpttDatabase, G)), "done")
     ELSE Commit(PpttExit(G), "done")
  /\ UNCHANGED << Offset, BodyOffset, Index >>
  /\ Untouched

NextPptt == PpttBegin \/ PpttIndex \/ PpttIndexed \/ PpttStructure \/ PpttFinish

SpecPptt == InitPptt /\ [][NextPptt]_vars

(***************************************************************************)
(* Specification SpecIort: ParseAcpiIort over tables of a header and up to *)
(* MaxIortNodes nodes.                                                     *)
(***************************************************************************)
MaxIortNodes == 2

IortNode(Type, Length, MappingCount, MappingOffset, Body) ==
  << Type >> \o LE16(Length) \o << 0 >> \o LE32(0) \o LE32(MappingCount)
    \o LE32(MappingOffset) \o Body

IortNodeVariants ==
  { IortNode(0, 24, 0, 0, LE32(1) \o LE32(7)),               \* ITS Group, one ITS
    IortNode(1, 32, 0, 0, Zeros(13) \o << 65, 0, 0 >>),      \* Named Component "A"
    IortNode(3, 92, 0, 0, Zeros(28) \o LE32(1) \o LE32(76) \o LE32(1) \o LE32(84)
                            \o Zeros(32)),                   \* SMMUv1/2
    IortNode(4, 68, 0, 0, Zeros(52)),                        \* SMMUv3
    IortNode(5, 40, 0, 0, Zeros(24)),                        \* PMCG
    IortNode(5, 60, 1, 40, Zeros(44)),                       \* PMCG, one ID mapping
    IortNode(5, 40, 1, 60, Zeros(24)),       \* the ID mappings lie past the node
    IortNode(9, 16, 0, 0, << >>),            \* a node of unknown type
    IortNode(5, 0, 0, 0, << >>),             \* a node of declared length zero
    << 5, 8, 0, 0, 0, 0, 0, 0 >>,            \* a PMCG node of declared length 8
    << 0, 2 >> }                             \* an ITS node of declared length 2

IortTable(Nodes, NodeCount) ==
  << 73, 79, 82, 84 >> \o LE32(48 + Len(Flatten(Nodes))) \o << 0, 0 >> \o Zeros(26)
    \o LE32(NodeCount) \o LE32(48) \o LE32(0) \o Flatten(Nodes)

IortTables ==
  { IortTable(ns, Len(ns)) : ns \in SeqsUpTo(IortNodeVariants, MaxIortNodes) }
    \cup { IortTable(ns, 1) : ns \in SeqsUpTo(IortNodeVariants, MaxIortNodes) }

InitIort ==
  /\ op = "ParseAcpiIort"
  /\ pc = "start"
  /\ Buf \in IortTables
  /\ AcpiTableLength \in {Len(Buf)} \cup (IF Len(Buf) <= 72 THEN {Len(Buf) - 4, 40} ELSE {})
  /\ ConsistencyCheck \in BOOLEAN
  /\ Arch \in {"AARCH64"} \cup (IF Len(Buf) <= 72 THEN {"X64"} ELSE {})
  /\ call \in { [NoCall EXCEPT !.Trace = t] : t \in {TRUE} \cup {Len(Buf) > 48} }
  /\ Offset = 0
  /\ BodyOffset = 0
  /\ Index = 0
  /\ gIndent = 0
  /\ slots = [n \in SlotNames |-> NULL]
  /\ Counts = [NoCounts EXCEPT !.Iort = [t \in 1..Len(IortStructs) |-> 3]]
  /\ heap \in HeapLayouts
  /\ mRefList = NoList
  /\ log = << >>
  /\ ret = 0
  /\ hist = [NoHistory EXCEPT !.prior = Counts.Iort]

\* ParseAcpiIort, lines 630-654.
IortBegin ==
  /\ pc = "start" /\ op = "ParseAcpiIort"
  /\ IF ~call.Trace
     THEN /\ pc' = "done"
          /\ UNCHANGED << Offset, gIndent, slots, Counts, mRefList, log, ret, hist >>
     ELSE \E g1 \in { ParseAcpi(TRUE, 0, "IORT", 0, AcpiTableLength, IortParser,
                                ResetAcpiStructCounts(IortDatabase, G)) } :
            IF g1.slots[IortSlot("IortNodeCount")] = NULL
                 \/ g1.slots[IortSlot("IortNodeOffset")] = NULL
            THEN /\ Commit(AcpiError(g1, "parse", "Failed to parse IORT Node.", "",
                                     << >>), "done")
                 /\ UNCHANGED Offset
            ELSE /\ Commit(g1, "loop")
                 /\ Offset' = Deref32(g1, IortSlot("IortNodeOffset"))
  /\ Index' = 0
  /\ UNCHANGED BodyOffset
  /\ Untouched

\* The offset after a node, line 689: the length is loaded again through
\* IortNodeLength, which the parse of the node has set anew.
IortAdvance(g) ==
  /\ Commit(NullLoad(g, IortSlot("IortNodeLength")), "loop")
  /\ Offset' = Add32(Offset, Deref16(g, IortSlot("IortNodeLength")))

\* One iteration of the loop over the nodes, lines 658-690.
IortNodeStep ==
  /\ pc = "loop" /\ op = "ParseAcpiIort"
  /\ Lt32(Index, Deref32(G, IortSlot("IortNodeCount")))
  /\ Lt32(Offset, AcpiTableLength)
  /\ Index' = Add32(Index, 1)
  /\ \E junk \in JunkWords :
     \E g1 \in { ParseAcpi(FALSE, 0, "IORT Node Header", Offset,
                           Sub32(AcpiTableLength, Offset), IortNodeHeaderParser,
                           [G EXCEPT !.junk = junk]) } :
       IF \E n \in { "IortNodeType", "IortNodeLength", "IortIdMappingCount",
                     "IortIdMappingOffset" } : g1.slots[IortSlot(n)] = NULL
       THEN /\ Commit(AcpiError(g1, "parse", "Failed to parse the IORT node header",
                                "", << >>), "done")
            /\ UNCHANGED Offset
       ELSE \E Type \in { Read8(Buf, g1.slots[IortSlot("IortNodeType")]) },
               Length \in { Deref16(g1, IortSlot("IortNodeLength")) } :
            \E g2 \in { AssertMemberIntegrity(Offset, Length, 0, AcpiTableLength, g1) } :
              IF g2.ret = 1
              THEN /\ Commit(g2, "done")
                   /\ UNCHANGED Offset
              ELSE \E g3 \in { ParseAcpiStruct(2, Offset, IortDatabase, Offset, Type,
                                               Length, g2) } :
                     IortAdvance(g3)
  /\ UNCHANGED BodyOffset
  /\ Untouched

\* The end of the loop, lines 692-696.
IortFinish ==
  /\ pc = "loop" /\ op = "ParseAcpiIort"
  /\ ~(Lt32(Index, Deref32(G, IortSlot("IortNodeCount")))
         /\ Lt32(Offset, AcpiTableLength))
  /\ IF ConsistencyCheck
     THEN Commit(ValidateAcpiStructCounts(IortDatabase, G), "done")
     ELSE Commit(G, "done")
  /\ UNCHANGED << Offset, BodyOffset, Index >>
  /\ Untouched

NextIort == IortBegin \/ IortNodeStep \/ IortFinish

SpecIort == InitIort /\ [][NextIort]_vars

(***************************************************************************)
(* Specification SpecTwice: a dispatcher is run over a table and, once it  *)
(* has returned, is run again over the same table with the same settings.  *)
(* The second run starts from the static state the first run left: the     *)
(* indent, the capture slots, the instance counters and the reference       *)
(* list.                                                                   *)
(***************************************************************************)
InitTwice == InitMadt \/ InitPptt \/ InitIort

Rerun ==
  /\ pc = "done" /\ hist.run = 1
  /\ pc' = "start"
  /\ log' = << >>
  /\ hist' = [NoHistory EXCEPT !.run = 2, !.first = log, !.prior = hist.prior,
                               !.undefined = hist.undefined]
  /\ Offset' = 0
  /\ BodyOffset' = 0
  /\ Index' = 0
  /\ UNCHANGED << gIndent, slots, Counts, mRefList, ret >>
  /\ Untouched

NextTwice == NextMadt \/ NextPptt \/ NextIort \/ Rerun

SpecTwice == InitTwice /\ [][NextTwice]_vars

(***************************************************************************)
(* Properties of the generic parser.                                       *)
(***************************************************************************)
CalledParser == ParserNamed(call.Parser)

\* A descriptor's byte range, as its declared offset and length give it,
\* lies within the buffer length of the call.
RangeWithin(P) == P.Offset + P.Length <= call.Length

\* C1: the byte count ParseAcpi returns is the sum of the declared lengths
\* of exactly the descriptors whose full byte range lies within the buffer
\* length.
C1_ReturnIsSumOfFittingLengths ==
  (op = "ParseAcpi" /\ pc = "done") =>
    ret = SumSeq([i \in 1..Len(CalledParser) |->
                    IF RangeWithin(CalledParser[i]) THEN CalledParser[i].Length ELSE 0])

\* C4: a descriptor whose byte range extends past the buffer length has its
\* capture slot set to null and is skipped, and the remaining descriptors
\* are still processed: after the call every slot of a descriptor in range
\* points at its field and every slot of a descriptor out of range is null.
C4_OutOfRangeSlotIsNull ==
  (op = "ParseAcpi" /\ pc = "done" /\ call.Length > 0) =>
    \A i \in 1..Len(CalledParser) :
      LET P == CalledParser[i] IN
      P.ItemPtr # NoSlot =>
        slots[P.ItemPtr] = IF RangeWithin(P) THEN call.Ptr + P.Offset ELSE NULL

\* C5: every call of ParseAcpi that has returned, whatever its exit path,
\* left gIndent at the value it had immediately before the call.
C5_IndentRestored == \A c \in hist.calls : c[1] = c[2]

C5_Witness ==
  /\ pc = "done"
  /\ op \in {"ParseAcpi", "DumpGasStruct"}
  /\ call.Indent > 0
  /\ call.Length > 0
  /\ Len(log) > 0
  /\ \E c \in hist.calls : c[1] > 0

(***************************************************************************)
(* Properties of ParseAcpiMadt.                                            *)
(***************************************************************************)
Dispatched(Type) ==
  Cardinality({ i \in 1..Len(hist.dispatch) : hist.dispatch[i] = Type })

Cites(r, k, Struct) ==
  /\ r.args[k].spec = "(table+0x%x)"
  /\ r.args[k].arg.given
  /\ r.args[k].arg.n \in Struct..(Struct + 79)

CrossErrorsCiting(FieldName, StructA, StructB) ==
  { i \in 1..Len(log) :
      /\ log[i].sev = "error" /\ log[i].kind = "cross"
      /\ \E k \in 1..Len(log[i].args) :
           log[i].args[k].spec = "%s" /\ log[i].args[k].arg = StrArg(FieldName)
      /\ \E k \in 1..Len(log[i].args) : Cites(log[i], k, StructA)
      /\ \E k \in 1..Len(log[i].args) : Cites(log[i], k, StructB) }

TwoGiccSameUid ==
  { MadtTable(<< Gicc(0, 7), Gicc(1, 7) >>), MadtTable(<< Gicc(1, 7), Gicc(1, 7) >>) }

\* C7: parsing, in consistency mode, a MADT with two GICC structures of
\* identical ACPI Processor UID emits one cross error that names
\* "ACPI Processor UID" and cites the offsets of both structures.
C7_DuplicateUidReported ==
  (/\ op = "ParseAcpiMadt" /\ pc = "done" /\ call.Trace /\ ConsistencyCheck
   /\ Buf \in TwoGiccSameUid /\ AcpiTableLength = Len(Buf)) =>
    Cardinality(CrossErrorsCiting("ACPI Processor UID", 44, 124)) = 1

(***************************************************************************)
(* Properties of the cross-structure validator.                            *)
(***************************************************************************)
\* The unordered pairs of entries of the list that the comparator of the
\* call reports equal.
EqualPairs ==
  { p \in (1..Len(mRefList.entries)) \X (1..Len(mRefList.entries)) :
      /\ p[1] < p[2]
      /\ CallCompareFunction(call.CompareFunction, ACPI_CROSS_ENTRY(mRefList, p[1]),
                             ACPI_CROSS_ENTRY(mRefList, p[2])) = 0 }

CrossErrors == { i \in 1..Len(log) : log[i].sev = "error" /\ log[i].kind = "cross" }

\* The message cites, at its two table offset conversions in order, the
\* offsets of entries a and b.
CitesBoth(r, a, b) ==
  LET At == { k \in 1..Len(r.args) : r.args[k].spec = "(table+0x%x)" }
  IN  \E k1, k2 \in At :
        /\ k1 < k2
        /\ r.args[k1].arg = IntArg(mRefList.entries[a].Offset)
        /\ r.args[k2].arg = IntArg(mRefList.entries[b].Offset)

\* C6: AcpiCrossValidatorAllUnique emits, for each unordered pair of entries
\* that the comparator reports equal, one cross error that cites the table
\* offsets of both entries; a list with m such pairs yields at least m cross
\* errors and a failure result.
C6_EqualPairsCited ==
  (op = "CrossValidator" /\ pc = "checked") =>
    /\ \A p \in EqualPairs : \E i \in CrossErrors : CitesBoth(log[i], p[1], p[2])
    /\ Cardinality(CrossErrors) >= Cardinality(EqualPairs)
    /\ EqualPairs # {} => ret = 0

(***************************************************************************)
(* Properties of the PPTT references.  What a reference should meet is     *)
(* read from the bytes of the table, not from the list the parser built.   *)
(***************************************************************************)
\* The offsets of the structures of the table, from offset o on.
RECURSIVE StructOffsets(_)
StructOffsets(o) ==
  IF o + 2 > AcpiTableLength THEN {}
  ELSE IF Buf[o + 2] = 0 THEN {o}
  ELSE {o} \cup StructOffsets(o + Buf[o + 2])

PpttStructures == StructOffsets(36)

TypeAt(o) == Buf[o + 1]

LeafAt(o) == TypeAt(o) = 0 /\ (Buf[o + 5] \div 8) % 2 = 1

\* The reference a structure makes: the four bytes at offset 8, for a
\* structure long enough to hold them.
ReferenceAt(o) == IF Buf[o + 2] >= 12 THEN ReadUnaligned32(Buf, o + 8) ELSE 0

\* The reference r is one the table allows.
Acceptable(r) ==
  /\ r.Reference \in PpttStructures
  /\ TypeAt(r.Reference) = TypeAt(r.Ptr - 8)
  /\ ~LeafAt(r.Reference)

\* The chain of references from the structure at o can be followed k hops.
RECURSIVE CanHop(_, _)
CanHop(o, k) ==
  k = 0 \/ (ReferenceAt(o) \in PpttStructures /\ CanHop(ReferenceAt(o), k - 1))

CrossErrorsOf(r) ==
  { k \in r.first..r.last : log[k].sev = "error" /\ log[k].kind = "cross" }

LoopErrorsOf(r) ==
  { k \in CrossErrorsOf(r) : log[k].msg = "Reference loop detected" }

LoopErrors ==
  { k \in 1..Len(log) : /\ log[k].sev = "error" /\ log[k].kind = "cross"
                        /\ log[k].msg = "Reference loop detected" }

PpttReferences == { hist.refs[i] : i \in 1..Len(hist.refs) }

\* C8: in a PPTT parse under consistency mode a Parent or Next Level of
\* Cache reference of zero is accepted and nothing is reported for it, and
\* every non-zero reference is reported with a cross error unless a
\* structure of the table lies at exactly the referenced offset, is of the
\* kind of the referring structure and is not a leaf processor node.
C8_ReferencesChecked ==
  (op = "ParseAcpiPptt" /\ ConsistencyCheck) =>
    \A r \in PpttReferences :
      /\ r.Reference = 0 => r.last < r.first
      /\ (r.Reference # 0 /\ ~Acceptable(r)) => CrossErrorsOf(r) # {}

C8_Witness ==
  /\ op = "ParseAcpiPptt" /\ ConsistencyCheck /\ pc = "done"
  /\ \E r \in PpttReferences : r.Reference = 0 /\ r.last < r.first
  /\ \E r \in PpttReferences :
       r.Reference # 0 /\ ~Acceptable(r) /\ CrossErrorsOf(r) # {}
  /\ \E r \in PpttReferences : Acceptable(r) /\ CrossErrorsOf(r) = {}

\* C9 as stated: for a PPTT of n structures, whenever the chain of
\* references from a referenced structure can be followed more than n hops,
\* the validation of the reference reports "Reference loop detected", and
\* the walk follows at most n hops.
C9_EveryLongChainReported ==
  (op = "ParseAcpiPptt" /\ ConsistencyCheck) =>
    \A r \in PpttReferences :
      /\ r.hops <= Cardinality(PpttStructures)
      /\ (r.Reference \in PpttStructures
            /\ CanHop(r.Reference, Cardinality(PpttStructures) + 1))
           => LoopErrorsOf(r) # {}

\* C9 as amended: for a PPTT of n structures, whenever the referenced
\* structure is of the kind of the referring structure and is not a leaf
\* processor node, and the chain of references from it can be followed more
\* than n hops, the validation of the reference reports "Reference loop
\* detected"; the walk follows at most n hops.
C9_AcceptedLongChainReported ==
  (op = "ParseAcpiPptt" /\ ConsistencyCheck) =>
    \A r \in PpttReferences :
      /\ r.hops <= Cardinality(PpttStructures)
      /\ (Acceptable(r) /\ CanHop(r.Reference, Cardinality(PpttStructures) + 1))
           => LoopErrorsOf(r) # {}

C9_Witness ==
  /\ op = "ParseAcpiPptt" /\ ConsistencyCheck
  /\ Cardinality(PpttStructures) = 3
  /\ \E r \in PpttReferences :
       /\ Acceptable(r) /\ r.Reference # r.Ptr - 8
       /\ CanHop(r.Reference, 4)
       /\ r.hops = 3
       /\ LoopErrorsOf(r) # {}

\* Three Processor Hierarchy Nodes whose Parent fields form a cycle.
ThreeCycle == PpttTable(<< Node(0, 56), Node(0, 76), Node(0, 36) >>)

\* C10 as stated: the parse, in consistency mode, of a PPTT of three
\* Processor Hierarchy Nodes whose Parent fields form a 3-cycle emits one
\* cross error "Reference loop detected".
C10_OneLoopError ==
  (op = "ParseAcpiPptt" /\ pc = "done" /\ ConsistencyCheck /\ call.Trace
     /\ Buf = ThreeCycle /\ AcpiTableLength = Len(Buf))
    => Cardinality(LoopErrors) = 1

\* C10 as amended: the parse, in consistency mode, of a PPTT of three
\* Processor Hierarchy Nodes whose Parent fields form a 3-cycle emits three
\* cross errors "Reference loop detected", one for the Parent of each node.
C10_ThreeLoopErrors ==
  (op = "ParseAcpiPptt" /\ pc = "done" /\ ConsistencyCheck /\ call.Trace
     /\ Buf = ThreeCycle /\ AcpiTableLength = Len(Buf))
    => /\ Cardinality(LoopErrors) = 3
       /\ \A r \in PpttReferences : Cardinality(LoopErrorsOf(r)) = 1

C10_Witness ==
  /\ op = "ParseAcpiPptt" /\ pc = "done" /\ ConsistencyCheck /\ call.Trace
  /\ Buf = ThreeCycle /\ AcpiTableLength = Len(Buf)
  /\ Len(hist.refs) = 3
  /\ Cardinality(LoopErrors) = 3

(***************************************************************************)
(* Properties of the table dispatchers.                                    *)
(***************************************************************************)
\* C2: every per-table dispatcher returns normally for every table buffer
\* and table length, also when a sub-structure is cut short, declares a
\* length of zero or one too small, or is of an unknown type: the run of a
\* dispatcher never ends in a fault and never stays in a loop for ever.
C2_DispatchersReturn ==
  op \in {"ParseAcpiMadt", "ParseAcpiPptt", "ParseAcpiIort"} =>
    pc \notin {"fault", "hang"}

(***************************************************************************)
(* Properties of the order of the output.                                  *)
(***************************************************************************)
\* The item lines of the sub-structures, and the lines of the trace of
\* their fields.
StructItems ==
  { k \in 1..Len(log) : log[k].sev = "item" /\ log[k].kind = "struct" }

CountLines == { k \in 1..Len(log) : log[k].kind = "count" }

\* C11: in the output of one traced table parse every cross error comes
\* after the item line of every sub-structure of the table, and every line
\* of the per-table instance counts comes after the item line of every
\* sub-structure.
C11_CrossErrorsAndCountsLast ==
  (op \in {"ParseAcpiMadt", "ParseAcpiPptt"} /\ call.Trace) =>
    /\ \A c \in CrossErrors : \A s \in StructItems : s < c
    /\ \A n \in CountLines : \A s \in StructItems : s < n

\* C12: a dispatcher run twice in succession over the same table buffer with
\* the same trace and consistency settings writes the same output both
\* times: when the second run has returned, its output is the output of the
\* first run.
C12_SecondRunSameOutput ==
  (hist.run = 2 /\ pc = "done") => log = hist.first

(***************************************************************************)
(* Properties of the structure database.                                   *)
(***************************************************************************)
\* The architectures of the build: ARM and AARCH64 for a build for either,
\* IA32 and X64 for a build for either.
BuildArchitectures == IF Arch \in ARM_AARCH64 THEN ARM_AARCH64 ELSE IA32_X64

\* The runs of ValidateAcpiStructCounts: each starts the table breakdown.
Breakdowns == { k \in 1..Len(log) : log[k].msg = "Table Breakdown:" }

CountLinesOf(Name) == { k \in CountLines : log[k].name = Name }

ArchitectureErrorsOf(Name) ==
  { k \in 1..Len(log) :
      /\ log[k].sev = "error"
      /\ log[k].msg = "%a Structure is not valid for the target architecture (found %d)"
      /\ log[k].name = Name }

\* C13: ValidateAcpiStructCounts treats a type as valid exactly when its
\* architecture mask and the architectures of the build have an architecture
\* in common; it displays the instance count of every valid type, reports
\* nothing for an invalid type whose count is zero and reports an error "not
\* valid for the target architecture" for every invalid type whose count is
\* not zero.
C13_CountsReportedByArchitecture ==
  (op = "ParseAcpiMadt" /\ pc = "done" /\ Breakdowns # {}) =>
    \A Type \in 0..(MadtDatabase.EntryCount - 1) :
      LET E == MadtDatabase.Entries[Type + 1]
      IN  IF E.CompatArch \cap BuildArchitectures # {}
          THEN /\ \E k \in CountLinesOf(E.Name) :
                    log[k].args = << Counts.Madt[Type + 1] >>
               /\ ArchitectureErrorsOf(E.Name) = {}
          ELSE /\ CountLinesOf(E.Name) = {}
               /\ (Counts.Madt[Type + 1] = 0) = (ArchitectureErrorsOf(E.Name) = {})

(***************************************************************************)
(* The IORT table generator of DynamicTablesPkg.                           *)
(*                                                                         *)
(* The platform objects live in a repository, call.Repo: for every object  *)
(* id the entries stored under it, each entry a cross-reference token and  *)
(* the objects stored under that token.  The generator reads the           *)
(* repository through the helper library; call.Protocol tells whether a    *)
(* configuration manager is installed and call.Pool which of the two       *)
(* allocations of the build the memory pool can serve.                     *)
(*                                                                         *)
(* In a behaviour of the generator Buf is the table buffer the build       *)
(* allocated, heap holds the generator's node indexer and the state of     *)
(* the pool, and ret the returned status and the table pointer handed to   *)
(* the caller.                                                             *)
(***************************************************************************)
CM_NULL_TOKEN == 0

MAX_UINT16 == 65535

EFI_ERROR(Status) == Status # "EFI_SUCCESS"

\* sizeof of a packed ACPI structure: the end of the last field of the field
\* table that describes it
SizeOf(Parser) == Parser[Len(Parser)].Offset + Parser[Len(Parser)].Length

\* Product of a 32-bit value and a small size, modulo 2^32
RECURSIVE Mul32(_, _)
Mul32(a, n) == IF n = 0 THEN 0 ELSE Add32(a, Mul32(a, n - 1))

ALIGN_VALUE(Val, Alignment) == ((Val + Alignment - 1) \div Alignment) * Alignment

AsciiStrLen(String) == Len(String)

AsciiStrSize(String) == Len(String) + 1

\* A 64-bit size is kept as its low 32 bits and the count of carries above.
Size64(lo) == [hi |-> 0, lo |-> lo]

Add64(Size, v) ==
  LET lo == Add32(Size.lo, v)
  IN  [hi |-> Size.hi + (IF Lt32(lo, Size.lo) THEN 1 ELSE 0), lo |-> lo]

ExceedsMaxUint32(Size) == Size.hi > 0

\* GetObject of the configuration manager protocol: all objects of the id when
\* the token is CM_NULL_TOKEN, the objects stored under the token otherwise.
GetObject(Repo, CmObjectId, Token) ==
  LET Entries == Repo[CmObjectId]
      Match == SelectSeq(Entries, LAMBDA e : Token = CM_NULL_TOKEN \/ e.Token = Token)
      Data == Flatten([k \in 1..Len(Match) |-> Match[k].Data])
  IN  IF Data = << >>
      THEN [Status |-> "EFI_NOT_FOUND", Data |-> << >>, Count |-> 0]
      ELSE [Status |-> "EFI_SUCCESS", Data |-> Data, Count |-> Len(Data)]

CfgMgrGetObjects(CmObjectId, Token) ==
  IF ~call.Protocol
  THEN [Status |-> "EFI_UNSUPPORTED", Buffer |-> << >>, ItemCount |-> 0]
  ELSE LET Object == GetObject(call.Repo, CmObjectId, Token)
       IN  [Status |-> Object.Status, Buffer |-> Object.Data, ItemCount |-> Object.Count]

CfgMgrCountObjects(CmObjectId) ==
  LET Got == CfgMgrGetObjects(CmObjectId, CM_NULL_TOKEN)
  IN  [Status |-> Got.Status,
       ItemCount |-> IF Got.Status = "EFI_NOT_FOUND" THEN 0 ELSE Got.ItemCount]

CfgMgrGetSimpleObject(CmObjectId) == CfgMgrGetObjects(CmObjectId, CM_NULL_TOKEN)

GetItsGroupNodeSize(CmNode) ==
  Add32(SizeOf(IortNodeItsParser), Mul32(CmNode.ItsIdCount, SizeOf(ItsIdParser)))

GetNamedComponentNodeSize(CmNode) ==
  Add32(SizeOf(IortNodeNamedComponentParser),
        Add32(Mul32(CmNode.IdMappingCount, SizeOf(IortNodeIdMappingParser)),
              ALIGN_VALUE(AsciiStrSize(CmNode.ObjectName), 4)))

GetRootComplexNodeSize(CmNode) ==
  Add32(SizeOf(IortNodeRootComplexParser),
        Mul32(CmNode.IdMappingCount, SizeOf(IortNodeIdMappingParser)))

GetSmmuV1V2NodeSize(CmNode) ==
  Add32(Add32(SizeOf(IortNodeSmmuV1V2Parser),
              Mul32(CmNode.IdMappingCount, SizeOf(IortNodeIdMappingParser))),
        Add32(Mul32(CmNode.ContextInterruptCount, SizeOf(InterruptArrayParser)),
              Mul32(CmNode.PmuInterruptCount, SizeOf(InterruptArrayParser))))

GetSmmuV3NodeSize(CmNode) ==
  Add32(SizeOf(IortNodeSmmuV3Parser),
        Mul32(CmNode.IdMappingCount, SizeOf(IortNodeIdMappingParser)))

GetPmcgNodeSize(CmNode) ==
  Add32(SizeOf(IortNodePmcgParser),
        Mul32(CmNode.IdMappingCount, SizeOf(IortNodeIdMappingParser)))

INDEX_NODE(ObjectId, CmNode) ==
  CASE ObjectId = "EArmObjItsGroup" -> GetItsGroupNodeSize(CmNode)
    [] ObjectId = "EArmObjNamedComponent" -> GetNamedComponentNodeSize(CmNode)
    [] ObjectId = "EArmObjRootComplex" -> GetRootComplexNodeSize(CmNode)
    [] ObjectId = "EArmObjSmmuV1SmmuV2" -> GetSmmuV1V2NodeSize(CmNode)
    [] ObjectId = "EArmObjSmmuV3" -> GetSmmuV3NodeSize(CmNode)
    [] ObjectId = "EArmObjPmcg" -> GetPmcgNodeSize(CmNode)

\* The value of F at v, with v computed once.
Bind(v, F(_)) == CHOOSE r \in { F(w) : w \in { v } } : TRUE

\* The build state b carries the node indexer array (NodeIndexer), the build's
\* cursor into it (Next, the index of the next free entry), the table buffer
\* (Buf), whether a store fell outside its block (oob) and the status.
RECURSIVE IndexNodes(_, _, _, _, _)
IndexNodes(ObjectId, NodeStartOffset, Nodes, Size, b) ==
  IF Nodes = << >> THEN [Size |-> Size, b |-> b]
  ELSE LET Entry == [Token |-> Head(Nodes).Token,
                     Offset |-> Add32(Size.lo, NodeStartOffset)]
       IN  Bind([Size |-> Add64(Size, INDEX_NODE(ObjectId, Head(Nodes))),
                 b |-> IF b.Next <= Len(b.NodeIndexer)
                       THEN [b EXCEPT !.NodeIndexer[b.Next] = Entry, !.Next = @ + 1]
                       ELSE [b EXCEPT !.oob = TRUE, !.Next = @ + 1]],
                LAMBDA n : IndexNodes(ObjectId, NodeStartOffset, Tail(Nodes), n.Size, n.b))

\* GetSizeOfNodes with every node's offset counted from the start of its
\* kind instead of the start of the table.
GetSizeOfNodesFromZero(ObjectId, NodeStartOffset, b) ==
  Bind(CfgMgrGetObjects(ObjectId, CM_NULL_TOKEN),
       LAMBDA Got : IF EFI_ERROR(Got.Status) THEN [Size |-> Size64(0), b |-> b]
                    ELSE IndexNodes(ObjectId, 0, Got.Buffer, Size64(0), b))

GetSizeOfNodes(ObjectId, NodeStartOffset, b) ==
  Bind(CfgMgrGetObjects(ObjectId, CM_NULL_TOKEN),
       LAMBDA Got : IF EFI_ERROR(Got.Status) THEN [Size |-> Size64(0), b |-> b]
                    ELSE IndexNodes(ObjectId, NodeStartOffset, Got.Buffer, Size64(0), b))

RECURSIVE GetNodeOffsetReferencedByToken(_, _, _)
GetNodeOffsetReferencedByToken(NodeIndexer, NodeCount, Token) ==
  IF NodeCount = 0 \/ NodeIndexer = << >>
  THEN [Status |-> "EFI_NOT_FOUND", NodeOffset |-> 0]
  ELSE IF Head(NodeIndexer).Token = Token
  THEN [Status |-> "EFI_SUCCESS", NodeOffset |-> Head(NodeIndexer).Offset]
  ELSE GetNodeOffsetReferencedByToken(Tail(NodeIndexer), NodeCount - 1, Token)

\* A store of bytes at offset off of the table buffer; a store that does not
\* fit the buffer lands outside the allocation.
StoreBytes(b, off, bytes) ==
  IF off >= 0 /\ off + Len(bytes) <= Len(b.Buf)
  THEN [b EXCEPT !.Buf = [i \in 1..Len(b.Buf) |->
                            IF i > off /\ i <= off + Len(bytes) THEN bytes[i - off]
                            ELSE b.Buf[i]]]
  ELSE [b EXCEPT !.oob = TRUE]

Put(b, off, bytes) ==
  Bind(b, LAMBDA b0 : Bind(bytes, LAMBDA data : StoreBytes(b0, off, data)))

\* A step of the construction failed: Status is what the step returns, and
\* the failure is remembered.
Fail(b, Status, Step) == [b EXCEPT !.Status = Status, !.failures = Append(@, Step)]

\* EFI_ACPI_6_0_IO_REMAPPING_NODE
IortNodeHeader(Type, Length, Revision, NumIdMappings, IdReference) ==
  LE8(Type) \o LE16(Length) \o LE8(Revision) \o LE32(0) \o LE32(NumIdMappings)
    \o LE32(IdReference)

\* Resolve a reference token and store the offset found at offset At.
ResolveInto(b, At, Token) ==
  Bind(GetNodeOffsetReferencedByToken(b.NodeIndexer, b.GeneratorIortNodeCount, Token),
       LAMBDA Found :
         Bind([b EXCEPT !.lookups = Append(@, [Token |-> Token, At |-> At,
                                               Status |-> Found.Status])],
              LAMBDA b1 :
                IF EFI_ERROR(Found.Status) THEN Fail(b1, Found.Status, "token")
                ELSE [Put(b1, At, LE32(Found.NodeOffset)) EXCEPT !.Status = "EFI_SUCCESS"]))

RECURSIVE PopulateIdMappings(_, _, _, _)
PopulateIdMappings(b, At, Cursor, IdCount) ==
  IF IdCount = 0 THEN b
  ELSE LET Map == Head(Cursor)
       IN  Bind(ResolveInto(b, At + OFFSET_OF(IortNodeIdMappingParser, "Output reference"),
                            Map.OutputReferenceToken),
                LAMBDA b1 :
                  IF EFI_ERROR(b1.Status) THEN b1
                  ELSE Bind(Put(Put(b1, At, LE32(Map.InputBase) \o LE32(Map.NumIds)
                                              \o LE32(Map.OutputBase)),
                                At + OFFSET_OF(IortNodeIdMappingParser, "Flags"),
                                LE32(Map.Flags)),
                            LAMBDA b2 :
                              PopulateIdMappings(b2, At + SizeOf(IortNodeIdMappingParser),
                                                 Tail(Cursor), IdCount - 1)))

AddIdMappingArray(b, At, IdCount, IdMappingToken) ==
  Bind(CfgMgrGetObjects("EArmObjIdMappingArray", IdMappingToken),
       LAMBDA Got :
         IF EFI_ERROR(Got.Status) THEN Fail(b, Got.Status, "fetch")
         ELSE IF Lt32(Got.ItemCount, IdCount) THEN Fail(b, "EFI_NOT_FOUND", "count")
         ELSE Bind([b EXCEPT !.Status = "EFI_SUCCESS"],
                   LAMBDA b1 : PopulateIdMappings(b1, At, Got.Buffer, IdCount)))

\* The id mappings of a node, added when the node declares some and names
\* their array.
AddIdMappingsOf(b, At, CmNode) ==
  IF CmNode.IdMappingCount # 0 /\ CmNode.IdMappingToken # CM_NULL_TOKEN
  THEN AddIdMappingArray(b, At, CmNode.IdMappingCount, CmNode.IdMappingToken)
  ELSE [b EXCEPT !.Status = "EFI_SUCCESS"]

\* The body of the loop of AddItsGroupNodes, for the node at offset At.
AddItsGroupNodes(b, At, CmNode, NodeLength) ==
  Bind(Put(b, At, IortNodeHeader(0, NodeLength, 0, 0, 0) \o LE32(CmNode.ItsIdCount)),
       LAMBDA b1 :
         Bind(CfgMgrGetObjects("EArmObjGicItsIdentifierArray", CmNode.ItsIdToken),
              LAMBDA Got :
                IF EFI_ERROR(Got.Status) THEN Fail(b1, Got.Status, "fetch")
                ELSE IF Lt32(Got.ItemCount, CmNode.ItsIdCount)
                THEN Fail(b1, "EFI_NOT_FOUND", "count")
                ELSE [Put(b1, At + SizeOf(IortNodeItsParser),
                          Flatten([k \in 1..CmNode.ItsIdCount |->
                                     LE32(Got.Buffer[k].ItsId)]))
                        EXCEPT !.Status = "EFI_SUCCESS"]))

AddNamedComponentNodes(b, At, CmNode, NodeLength) ==
  LET ObjectNameLength == AsciiStrLen(CmNode.ObjectName) + 1
      IdReference == SizeOf(IortNodeNamedComponentParser) + ALIGN_VALUE(ObjectNameLength, 4)
  IN  Bind(Put(b, At,
               IortNodeHeader(1, NodeLength, 2, CmNode.IdMappingCount, IdReference)
                 \o LE32(CmNode.Flags) \o LE32(CmNode.CacheCoherent)
                 \o LE8(CmNode.AllocationHints) \o LE16(0) \o LE8(CmNode.MemoryAccessFlags)
                 \o LE8(CmNode.AddressSizeLimit)),
           LAMBDA b1 :
             Bind(Put(b1, At + SizeOf(IortNodeNamedComponentParser),
                      CmNode.ObjectName \o << 0 >>),
                  LAMBDA b2 : AddIdMappingsOf(b2, At + IdReference, CmNode)))

AddRootComplexNodes(b, At, CmNode, NodeLength) ==
  LET IdReference == SizeOf(IortNodeRootComplexParser)
  IN  Bind(Put(b, At,
               IortNodeHeader(2, NodeLength, 1, CmNode.IdMappingCount, IdReference)
                 \o LE32(CmNode.CacheCoherent) \o LE8(CmNode.AllocationHints) \o LE16(0)
                 \o LE8(CmNode.MemoryAccessFlags) \o LE32(CmNode.AtsAttribute)
                 \o LE32(CmNode.PciSegmentNumber) \o LE8(CmNode.MemoryAddressSize)
                 \o << 0, 0, 0 >>),
           LAMBDA b1 : AddIdMappingsOf(b1, At + IdReference, CmNode))

RECURSIVE PopulateInterrupts(_, _, _, _)
PopulateInterrupts(b, At, Cursor, InterruptCount) ==
  IF InterruptCount = 0 THEN b
  ELSE Bind(Put(b, At, LE32(Head(Cursor).Interrupt) \o LE32(Head(Cursor).Flags)),
            LAMBDA b1 : PopulateInterrupts(b1, At + SizeOf(InterruptArrayParser),
                                           Tail(Cursor), InterruptCount - 1))

\* The status set when too few interrupts are stored is dropped at EXIT, which
\* returns EFI_SUCCESS.
AddSmmuInterrruptArray(b, At, InterruptCount, InterruptToken) ==
  Bind(CfgMgrGetObjects("EArmObjSmmuInterruptArray", InterruptToken),
       LAMBDA Got :
         IF EFI_ERROR(Got.Status) THEN Fail(b, Got.Status, "fetch")
         ELSE IF Lt32(Got.ItemCount, InterruptCount)
         THEN [Fail(b, "EFI_NOT_FOUND", "count") EXCEPT !.Status = "EFI_SUCCESS"]
         ELSE [PopulateInterrupts(b, At, Got.Buffer, InterruptCount)
                 EXCEPT !.Status = "EFI_SUCCESS"])

AddSmmuV1V2Nodes(b, At, CmNode, NodeLength) ==
  LET ContextInterruptArrayRef == SizeOf(IortNodeSmmuV1V2Parser)
      PmuInterruptArrayRef ==
        Add32(ContextInterruptArrayRef,
              Mul32(CmNode.ContextInterruptCount, SizeOf(InterruptArrayParser)))
      IdReference ==
        Add32(PmuInterruptArrayRef,
              Mul32(CmNode.PmuInterruptCount, SizeOf(InterruptArrayParser)))
  IN  Bind(Put(b, At,
               IortNodeHeader(3, NodeLength, 0, CmNode.IdMappingCount, IdReference)
                 \o LE64(CmNode.BaseAddress) \o LE64(CmNode.Span) \o LE32(CmNode.Model)
                 \o LE32(CmNode.Flags)
                 \o LE32(OFFSET_OF(IortNodeSmmuV1V2Parser, "SMMU_NSgIrpt"))
                 \o LE32(CmNode.ContextInterruptCount) \o LE32(ContextInterruptArrayRef)
                 \o LE32(CmNode.PmuInterruptCount) \o LE32(PmuInterruptArrayRef)
                 \o LE32(CmNode.SMMU_NSgIrpt) \o LE32(CmNode.SMMU_NSgIrptFlags)
                 \o LE32(CmNode.SMMU_NSgCfgIrpt) \o LE32(CmNode.SMMU_NSgCfgIrptFlags)),
           LAMBDA b1 :
             Bind(AddSmmuInterrruptArray(b1, At + ContextInterruptArrayRef,
                                         CmNode.ContextInterruptCount,
                                         CmNode.ContextInterruptToken),
                  LAMBDA b2 :
                    IF EFI_ERROR(b2.Status) THEN b2
                    ELSE Bind(IF CmNode.PmuInterruptCount # 0
                                   /\ CmNode.PmuInterruptToken # CM_NULL_TOKEN
                              THEN AddSmmuInterrruptArray(b2, At + PmuInterruptArrayRef,
                                                          CmNode.PmuInterruptCount,
                                                          CmNode.PmuInterruptToken)
                              ELSE b2,
                              LAMBDA b3 :
                                IF EFI_ERROR(b3.Status) THEN b3
                                ELSE AddIdMappingsOf(b3, At + IdReference, CmNode))))

AddSmmuV3Nodes(b, At, CmNode, NodeLength) ==
  LET IdReference == SizeOf(IortNodeSmmuV3Parser)
      ProximityDomain == IF (CmNode.Flags \div 8) % 2 = 1 THEN CmNode.ProximityDomain ELSE 0
      DeviceIdMappingIndex ==
        IF CmNode.EventInterrupt # 0 /\ CmNode.PriInterrupt # 0 /\ CmNode.GerrInterrupt # 0
             /\ CmNode.SyncInterrupt # 0
        THEN 0 ELSE CmNode.DeviceIdMappingIndex
  IN  Bind(Put(b, At,
               IortNodeHeader(4, NodeLength, 2, CmNode.IdMappingCount, IdReference)
                 \o LE64(CmNode.BaseAddress) \o LE32(CmNode.Flags) \o LE32(0)
                 \o LE64(CmNode.VatosAddress) \o LE32(CmNode.Model)
                 \o LE32(CmNode.EventInterrupt) \o LE32(CmNode.PriInterrupt)
                 \o LE32(CmNode.GerrInterrupt) \o LE32(CmNode.SyncInterrupt)
                 \o LE32(ProximityDomain) \o LE32(DeviceIdMappingIndex)),
           LAMBDA b1 : AddIdMappingsOf(b1, At + IdReference, CmNode))

AddPmcgNodes(b, At, CmNode, NodeLength) ==
  LET IdReference == SizeOf(IortNodePmcgParser)
  IN  Bind(Put(Put(b, At,
                   IortNodeHeader(5, NodeLength, 1, CmNode.IdMappingCount, IdReference)
                     \o LE64(CmNode.BaseAddress) \o LE32(CmNode.OverflowInterrupt)),
               At + OFFSET_OF(IortNodePmcgParser, "Page 1 Base Address"),
               LE64(CmNode.Page1BaseAddress)),
           LAMBDA b1 :
             Bind(ResolveInto(b1, At + OFFSET_OF(IortNodePmcgParser, "Node reference"),
                              CmNode.ReferenceToken),
                  LAMBDA b2 : IF EFI_ERROR(b2.Status) THEN b2
                              ELSE AddIdMappingsOf(b2, At + IdReference, CmNode)))

AddNode(ObjectId, b, At, CmNode, NodeLength) ==
  CASE ObjectId = "EArmObjItsGroup" -> AddItsGroupNodes(b, At, CmNode, NodeLength)
    [] ObjectId = "EArmObjNamedComponent" -> AddNamedComponentNodes(b, At, CmNode, NodeLength)
    [] ObjectId = "EArmObjRootComplex" -> AddRootComplexNodes(b, At, CmNode, NodeLength)
    [] ObjectId = "EArmObjSmmuV1SmmuV2" -> AddSmmuV1V2Nodes(b, At, CmNode, NodeLength)
    [] ObjectId = "EArmObjSmmuV3" -> AddSmmuV3Nodes(b, At, CmNode, NodeLength)
    [] ObjectId = "EArmObjPmcg" -> AddPmcgNodes(b, At, CmNode, NodeLength)

\* The loop over the nodes of one kind that every Add...Nodes function runs:
\* a node longer than MAX_UINT16 ends it, the node is populated at its
\* offset, and the next node follows at the node's length.
RECURSIVE AddNodes(_, _, _, _)
AddNodes(ObjectId, b, At, NodeList) ==
  IF NodeList = << >> THEN [b EXCEPT !.Status = "EFI_SUCCESS"]
  ELSE Bind([CmNode |-> Head(NodeList), NodeLength |-> INDEX_NODE(ObjectId, Head(NodeList))],
            LAMBDA n :
              IF Gt32(n.NodeLength, MAX_UINT16)
              THEN Fail(b, "EFI_INVALID_PARAMETER", "length")
              ELSE Bind([b EXCEPT !.emitted = Append(@, [Token |-> n.CmNode.Token,
                                                         Offset |-> At])],
                        LAMBDA b0 :
                          Bind(AddNode(ObjectId, b0, At, n.CmNode, n.NodeLength),
                               LAMBDA b1 :
                                 IF EFI_ERROR(b1.Status) THEN b1
                                 ELSE AddNodes(ObjectId, b1, At + n.NodeLength,
                                               Tail(NodeList)))))

IortNodeKinds ==
  << "EArmObjItsGroup", "EArmObjNamedComponent", "EArmObjRootComplex",
     "EArmObjSmmuV1SmmuV2", "EArmObjSmmuV3", "EArmObjPmcg" >>

EFI_ACPI_IO_REMAPPING_TABLE_REVISION == 0

\* The largest request the memory pool serves.
MaxPoolBytes == 4096

\* AddAcpiHeader, with GetCgfMgrInfo: the header is written from the generator's
\* constants, the table info and the configuration manager info; the
\* checksum byte is set to zero.
AddAcpiHeader(b, AcpiTableInfo, Length) ==
  Bind(GetObject(call.Repo, "EStdObjCfgMgrInfo", CM_NULL_TOKEN),
       LAMBDA Info :
         IF EFI_ERROR(Info.Status) THEN Fail(b, Info.Status, "fetch")
         ELSE LET CfgMfrInfo == Info.Data[1]
                  Signature == << 73, 79, 82, 84 >>
                  OemTableId == IF AcpiTableInfo.OemTableId # Zeros(8)
                                THEN AcpiTableInfo.OemTableId
                                ELSE SubSeq(CfgMfrInfo.OemId, 1, 4) \o Signature
                  OemRevision == IF AcpiTableInfo.OemRevision # 0
                                 THEN AcpiTableInfo.OemRevision
                                 ELSE CfgMfrInfo.Revision
              IN  [Put(b, 0, Signature \o LE32(Length)
                               \o LE8(AcpiTableInfo.AcpiTableRevision)
                               \o LE8(0) \o CfgMfrInfo.OemId \o OemTableId
                               \o LE32(OemRevision) \o << 65, 82, 77, 72 >> \o LE32(65536))
                     EXCEPT !.Status = "EFI_SUCCESS"])

\* FreePool: the block leaves the pool; a pointer the pool did not hand out
\* is undefined behaviour.
FreePool(b, Ptr) ==
  [b EXCEPT !.freed = Append(@, Ptr), !.live = @ \ {Ptr},
            !.oob = @ \/ Ptr \notin b.live]

\* The six CfgMgrCountObjects calls at the head of BuildIortTable.
RECURSIVE CountKinds(_, _)
CountKinds(Kinds, b) ==
  IF Kinds = << >> THEN [b EXCEPT !.Status = "EFI_SUCCESS"]
  ELSE Bind(CfgMgrCountObjects(Head(Kinds)),
            LAMBDA Got :
              IF EFI_ERROR(Got.Status) /\ Got.Status # "EFI_NOT_FOUND"
              THEN Fail(b, Got.Status, "fetch")
              ELSE Bind([b EXCEPT !.Count[Head(Kinds)] = Got.ItemCount,
                                  !.IortNodeCount = Add32(@, Got.ItemCount)],
                        LAMBDA b1 : CountKinds(Tail(Kinds), b1)))

\* The sizing pass of BuildIortTable: the offset of every kind that has nodes
\* and the size of the table.
RECURSIVE SizeKinds(_, _, _)
SizeKinds(Kinds, TableSize, b) ==
  IF Kinds = << >> THEN [TableSize |-> TableSize, b |-> b]
  ELSE IF b.Count[Head(Kinds)] = 0 THEN SizeKinds(Tail(Kinds), TableSize, b)
  ELSE Bind(GetSizeOfNodes(Head(Kinds), TableSize.lo, b),
            LAMBDA Sized :
              Bind([Sized.b EXCEPT !.Offset[Head(Kinds)] = TableSize.lo],
                   LAMBDA b1 :
                     IF ExceedsMaxUint32(Sized.Size)
                     THEN [TableSize |-> TableSize,
                           b |-> Fail(b1, "EFI_INVALID_PARAMETER", "size")]
                     ELSE Bind(Add64(TableSize, Sized.Size.lo),
                               LAMBDA Total : SizeKinds(Tail(Kinds), Total, b1))))

\* The emission pass of BuildIortTable over the kinds that have nodes.
RECURSIVE EmitKinds(_, _)
EmitKinds(Kinds, b) ==
  IF Kinds = << >> THEN [b EXCEPT !.Status = "EFI_SUCCESS"]
  ELSE IF b.Count[Head(Kinds)] = 0 THEN EmitKinds(Tail(Kinds), b)
  ELSE Bind(AddNodes(Head(Kinds), b, b.Offset[Head(Kinds)],
                     CfgMgrGetSimpleObject(Head(Kinds)).Buffer),
            LAMBDA b1 : IF EFI_ERROR(b1.Status) THEN b1 ELSE EmitKinds(Tail(Kinds), b1))

\* error_handler without the release of the table buffer.
ErrorHandlerKeepsTable(b) ==
  IF b.GeneratorNodeIndexer # "NULL"
  THEN [FreePool(b, b.GeneratorNodeIndexer) EXCEPT !.GeneratorNodeIndexer = "NULL"]
  ELSE b

\* error_handler of BuildIortTable.  Iort is a local the paths taken before
\* the table is allocated never assigned: what it holds there is call.Junk.
ErrorHandler(b) ==
  LET Iort == IF b.Iort = "unassigned" THEN call.Junk ELSE b.Iort
  IN  Bind(IF b.GeneratorNodeIndexer # "NULL"
           THEN [FreePool(b, b.GeneratorNodeIndexer) EXCEPT !.GeneratorNodeIndexer = "NULL"]
           ELSE b,
           LAMBDA b1 : IF Iort # "NULL" THEN FreePool(b1, Iort) ELSE b1)

\* BuildIortTable from the allocation of the table buffer on.
BuildIortTableBody(b, TableSize) ==
  IF ~call.Pool.Iort \/ Gt32(TableSize, MaxPoolBytes)
  THEN Bind(Fail([b EXCEPT !.Iort = "NULL"], "EFI_OUT_OF_RESOURCES", "pool"),
            LAMBDA b1 : ErrorHandler(b1))
  ELSE Bind(AddAcpiHeader([b EXCEPT !.Iort = "Iort", !.live = @ \cup {"Iort"},
                                    !.Buf = Zeros(TableSize)],
                          call.AcpiTableInfo, TableSize),
            LAMBDA b2 :
              IF EFI_ERROR(b2.Status) THEN ErrorHandler(b2)
              ELSE Bind(Put(b2, OFFSET_OF(IortParser, "Number of IORT Nodes"),
                            LE32(b2.IortNodeCount) \o LE32(SizeOf(IortParser)) \o LE32(0)),
                        LAMBDA b3 :
                          Bind(EmitKinds(IortNodeKinds, b3),
                               LAMBDA b4 :
                                 IF EFI_ERROR(b4.Status) THEN ErrorHandler(b4)
                                 ELSE [b4 EXCEPT !.Table = "Iort",
                                                 !.Status = "EFI_SUCCESS"])))

BuildIortTable(b) ==
  IF call.AcpiTableInfo.AcpiTableRevision # EFI_ACPI_IO_REMAPPING_TABLE_REVISION
  THEN Fail(b, "EFI_INVALID_PARAMETER", "revision")
  ELSE Bind(CountKinds(IortNodeKinds, [b EXCEPT !.Table = "NULL", !.IortNodeCount = 0]),
            LAMBDA b1 :
              IF EFI_ERROR(b1.Status) THEN b1
              ELSE IF ~call.Pool.NodeIndexer THEN Fail(b1, "EFI_OUT_OF_RESOURCES", "pool")
              ELSE Bind([b1 EXCEPT
                           !.NodeIndexer = [k \in 1..b1.IortNodeCount |->
                                              [Token |-> 0, Offset |-> 0]],
                           !.Next = 1,
                           !.GeneratorIortNodeCount = b1.IortNodeCount,
                           !.GeneratorNodeIndexer = "NodeIndexer",
                           !.live = @ \cup {"NodeIndexer"}],
                        LAMBDA b2 :
                          Bind(SizeKinds(IortNodeKinds, Size64(SizeOf(IortParser)), b2),
                               LAMBDA Sized :
                                 IF EFI_ERROR(Sized.b.Status) THEN ErrorHandler(Sized.b)
                                 ELSE IF ExceedsMaxUint32(Sized.TableSize)
                                 THEN Bind(Fail(Sized.b, "EFI_INVALID_PARAMETER", "size"),
                                           LAMBDA b3 : ErrorHandler(b3))
                                 ELSE BuildIortTableBody(Sized.b, Sized.TableSize.lo))))

FreeIortTableResources(b) ==
  Bind(IF b.GeneratorNodeIndexer # "NULL"
       THEN [FreePool(b, b.GeneratorNodeIndexer) EXCEPT !.GeneratorNodeIndexer = "NULL"]
       ELSE b,
       LAMBDA b1 :
         IF b1.Table = "NULL" THEN [b1 EXCEPT !.Status = "EFI_INVALID_PARAMETER"]
         ELSE [FreePool(b1, b1.Table) EXCEPT !.Table = "NULL", !.Status = "EFI_SUCCESS"])

(***************************************************************************)
(* Specification SpecIortGen: one build of the IORT by BuildIortTable and   *)
(* the release of its resources by FreeIortTableResources, over bounded     *)
(* repositories of platform objects.                                        *)
(***************************************************************************)
MaxItsGroups == 2

\* The least counts whose array size no longer fits 32 bits once two nodes
\* are summed (ITS identifiers) or wraps around in one node (id mappings).
HugeItsIdCount == (MaxInt32 \div 4) + 1

HugeIdMappingCount == (MaxInt32 \div 10) + 1

\* The count of id mappings whose array size, 20 * (2^30 - 1), is 20 bytes
\* short of a multiple of 2^32: the size of a node with that many id
\* mappings wraps around to less than the size of the node's fixed part.
ShortIdMappingCount == MaxInt32 \div 2

\* The cross-reference tokens of the stored objects, all different: the ITS
\* groups come first, then one node of every other kind, a token no object
\* carries, and the arrays.
ItsToken(k) == k

NamedComponentToken == ItsToken(MaxItsGroups) + 9

RootComplexToken == NamedComponentToken + 1

SmmuV1V2Token == RootComplexToken + 1

SmmuV3Token == SmmuV1V2Token + 1

PmcgToken == SmmuV3Token + 1

AbsentToken == PmcgToken + 4

ItsIdArrayToken == AbsentToken + 2

IdMappingArrayToken == ItsIdArrayToken + 1

InterruptArrayToken == IdMappingArrayToken + 1

Stored(Token, Objects) == [Token |-> Token, Data |-> Objects]

CM_ARM_ITS_GROUP_NODE(Token, ItsIdCount) ==
  [Token |-> Token, ItsIdCount |-> ItsIdCount, ItsIdToken |-> ItsIdArrayToken]

CM_ARM_NAMED_COMPONENT_NODE(IdMappingCount, IdMappingToken, ObjectName) ==
  [Token |-> NamedComponentToken, IdMappingCount |-> IdMappingCount,
   IdMappingToken |-> IdMappingToken, Flags |-> 0, CacheCoherent |-> 1,
   AllocationHints |-> 0, MemoryAccessFlags |-> 0, AddressSizeLimit |-> 48,
   ObjectName |-> ObjectName]

CM_ARM_ROOT_COMPLEX_NODE(IdMappingCount, IdMappingToken) ==
  [Token |-> RootComplexToken, IdMappingCount |-> IdMappingCount,
   IdMappingToken |-> IdMappingToken, CacheCoherent |-> 1, AllocationHints |-> 0,
   MemoryAccessFlags |-> 0, AtsAttribute |-> 1, PciSegmentNumber |-> 0,
   MemoryAddressSize |-> 48]

CM_ARM_SMMUV1_SMMUV2_NODE(IdMappingCount, ContextInterruptCount, PmuInterruptCount) ==
  [Token |-> SmmuV1V2Token, IdMappingCount |-> IdMappingCount,
   IdMappingToken |-> IdMappingArrayToken, BaseAddress |-> 4096, Span |-> 4096,
   Model |-> 1, Flags |-> 0, ContextInterruptCount |-> ContextInterruptCount,
   ContextInterruptToken |-> InterruptArrayToken,
   PmuInterruptCount |-> PmuInterruptCount, PmuInterruptToken |-> InterruptArrayToken,
   SMMU_NSgIrpt |-> 40, SMMU_NSgIrptFlags |-> 1, SMMU_NSgCfgIrpt |-> 41,
   SMMU_NSgCfgIrptFlags |-> 1]

CM_ARM_SMMUV3_NODE(Flags) ==
  [Token |-> SmmuV3Token, IdMappingCount |-> 0, IdMappingToken |-> CM_NULL_TOKEN,
   BaseAddress |-> 8192, Flags |-> Flags, VatosAddress |-> 0, Model |-> 0,
   EventInterrupt |-> 50, PriInterrupt |-> 51, GerrInterrupt |-> 52,
   SyncInterrupt |-> 0, ProximityDomain |-> 3, DeviceIdMappingIndex |-> 1]

CM_ARM_PMCG_NODE(ReferenceToken) ==
  [Token |-> PmcgToken, IdMappingCount |-> 0, IdMappingToken |-> CM_NULL_TOKEN,
   BaseAddress |-> 12288, OverflowInterrupt |-> 60, Page1BaseAddress |-> 16384,
   ReferenceToken |-> ReferenceToken]

CM_ARM_ID_MAPPING(OutputReferenceToken) ==
  [InputBase |-> 0, NumIds |-> 255, OutputBase |-> 0,
   OutputReferenceToken |-> OutputReferenceToken, Flags |-> 0]

OneEach(Nodes) == [k \in 1..Len(Nodes) |-> Stored(Nodes[k].Token, << Nodes[k] >>)]

ItsGroupLists ==
  { [k \in 1..n |-> CM_ARM_ITS_GROUP_NODE(ItsToken(k), 2)] : n \in 0..MaxItsGroups }
    \cup { [k \in 1..MaxItsGroups |-> CM_ARM_ITS_GROUP_NODE(ItsToken(k), c)] :
              c \in {3, HugeItsIdCount} }

NamedComponentLists ==
  { << >>, << CM_ARM_NAMED_COMPONENT_NODE(0, CM_NULL_TOKEN, << 65 >>) >>,
    << CM_ARM_NAMED_COMPONENT_NODE(1, IdMappingArrayToken, << 65, 66, 67, 68 >>) >> }

RootComplexLists ==
  { << >> } \cup
  { << CM_ARM_ROOT_COMPLEX_NODE(c, IdMappingArrayToken) >> : c \in {1, 2} } \cup
  { << CM_ARM_ROOT_COMPLEX_NODE(c, CM_NULL_TOKEN) >> :
       c \in {1, HugeIdMappingCount, ShortIdMappingCount} }

SmmuV1V2Lists ==
  { << >>, << CM_ARM_SMMUV1_SMMUV2_NODE(0, 1, 0) >>, << CM_ARM_SMMUV1_SMMUV2_NODE(0, 2, 0) >>,
    << CM_ARM_SMMUV1_SMMUV2_NODE(1, 1, 1) >> }

SmmuV3Lists == { << >>, << CM_ARM_SMMUV3_NODE(8) >> }

ReferenceTokens == { ItsToken(1), SmmuV1V2Token, CM_NULL_TOKEN, AbsentToken }

PmcgLists == { << >> } \cup { << CM_ARM_PMCG_NODE(t) >> : t \in ReferenceTokens }

CfgMgrInfo == [Revision |-> 65537, OemId |-> << 65, 82, 77, 76, 84, 68 >>]

Repository(Its, Nc, Rc, Smmu, SmmuV3, Pmcg, OutputReferenceToken, Info) ==
  [EArmObjItsGroup |-> OneEach(Its),
   EArmObjNamedComponent |-> OneEach(Nc),
   EArmObjRootComplex |-> OneEach(Rc),
   EArmObjSmmuV1SmmuV2 |-> OneEach(Smmu),
   EArmObjSmmuV3 |-> OneEach(SmmuV3),
   EArmObjPmcg |-> OneEach(Pmcg),
   EArmObjGicItsIdentifierArray |->
     << Stored(ItsIdArrayToken, << [ItsId |-> 1], [ItsId |-> 2] >>) >>,
   EArmObjIdMappingArray |->
     << Stored(IdMappingArrayToken, << CM_ARM_ID_MAPPING(OutputReferenceToken) >>) >>,
   EArmObjSmmuInterruptArray |->
     << Stored(InterruptArrayToken, << [Interrupt |-> 70, Flags |-> 1] >>) >>,
   EStdObjCfgMgrInfo |-> IF Info THEN << Stored(CM_NULL_TOKEN, << CfgMgrInfo >>) >>
                         ELSE << >>]

\* A node list that takes its id mappings from the stored array.
MapsIds(Nodes) ==
  \E k \in 1..Len(Nodes) :
    Nodes[k].IdMappingCount # 0 /\ Nodes[k].IdMappingToken # CM_NULL_TOKEN

\* What the environment of the build can be: everything in order, or one of
\* no configuration manager installed, no manager info stored, no memory
\* for the node indexer, no memory for the table, a revision not supported.
Sound ==
  [Protocol |-> TRUE, Info |-> TRUE, Pool |-> [NodeIndexer |-> TRUE, Iort |-> TRUE],
   AcpiTableRevision |-> EFI_ACPI_IO_REMAPPING_TABLE_REVISION]

Environments ==
  { Sound, [Sound EXCEPT !.Protocol = FALSE], [Sound EXCEPT !.Info = FALSE],
    [Sound EXCEPT !.Pool.NodeIndexer = FALSE], [Sound EXCEPT !.Pool.Iort = FALSE],
    [Sound EXCEPT !.AcpiTableRevision = EFI_ACPI_IO_REMAPPING_TABLE_REVISION + 1] }

\* The state before a build: nothing allocated, and the caller's table
\* pointer (Table), which the build first writes after its revision check,
\* NULL.
NoBuild ==
  [NodeIndexer |-> << >>, Next |-> 1, IortNodeCount |-> 0, GeneratorIortNodeCount |-> 0,
   GeneratorNodeIndexer |-> "NULL", Iort |-> "unassigned", Table |-> "NULL",
   Buf |-> << >>, live |-> {}, freed |-> << >>, oob |-> FALSE, Status |-> "EFI_SUCCESS",
   Count |-> [k \in { IortNodeKinds[i] : i \in 1..Len(IortNodeKinds) } |-> 0],
   Offset |-> [k \in { IortNodeKinds[i] : i \in 1..Len(IortNodeKinds) } |-> 0],
   failures |-> << >>, lookups |-> << >>, emitted |-> << >>]

InitIortGen ==
  /\ op = "BuildIortTable"
  /\ pc = "start"
  /\ \E e \in Environments, Its \in ItsGroupLists, Nc \in NamedComponentLists,
        Rc \in RootComplexLists, Smmu \in SmmuV1V2Lists, SmmuV3 \in SmmuV3Lists,
        Pmcg \in PmcgLists, r \in ReferenceTokens, j \in {"NULL", "junk"} :
       /\ e # Sound => Nc = << >> /\ Smmu = << >> /\ j = "NULL"
       /\ SmmuV3 # << >> => Nc # << >> /\ Pmcg = << >>
       /\ r # ItsToken(1) => MapsIds(Nc) \/ MapsIds(Rc) \/ MapsIds(Smmu)
       /\ j = "junk" => \E k \in 1..Len(Its) : Its[k].ItsIdCount = HugeItsIdCount
       /\ call = [Repo |-> Repository(Its, Nc, Rc, Smmu, SmmuV3, Pmcg, r, e.Info),
                  Protocol |-> e.Protocol, Pool |-> e.Pool, Junk |-> j,
                  AcpiTableInfo |-> [AcpiTableRevision |-> e.AcpiTableRevision,
                                     OemTableId |-> Zeros(8), OemRevision |-> 0]]
  /\ Buf = << >>
  /\ heap = NoBuild
  /\ ret = [Status |-> "EFI_NOT_STARTED", Table |-> "NULL"]
  /\ hist = [undefined |-> FALSE, failures |-> << >>, lookups |-> << >>,
             emitted |-> << >>, freed |-> << >>]
  /\ AcpiTableLength = 0
  /\ ConsistencyCheck = FALSE
  /\ Arch = "AARCH64"
  /\ Offset = 0
  /\ BodyOffset = 0
  /\ Index = 0
  /\ gIndent = 0
  /\ slots = << >>
  /\ Counts = NoCounts
  /\ mRefList = NoList
  /\ log = << >>

\* Write the state of a call of the generator back; a call that ran into
\* undefined behaviour either went on or was stopped by a fault.
Return(b, next) ==
  /\ heap' = [b EXCEPT !.oob = FALSE]
  /\ Buf' = b.Buf
  /\ ret' = [Status |-> b.Status, Table |-> b.Table]
  /\ hist' = [undefined |-> hist.undefined \/ b.oob, failures |-> b.failures,
              lookups |-> b.lookups, emitted |-> b.emitted, freed |-> b.freed]
  /\ pc' \in IF b.oob THEN {next, "fault"} ELSE {next}
  /\ UNCHANGED << op, call, AcpiTableLength, ConsistencyCheck, Arch, Offset, BodyOffset,
                  Index, gIndent, slots, Counts, mRefList, log >>

CallBuildIortTable ==
  /\ pc = "start" /\ op = "BuildIortTable"
  /\ \E b \in { BuildIortTable(heap) } :
       Return(b, IF EFI_ERROR(b.Status) THEN "failed" ELSE "built")

CallFreeIortTableResources ==
  /\ pc \in {"built", "failed"} /\ op = "BuildIortTable"
  /\ \E b \in { FreeIortTableResources(heap) } : Return(b, "freed")

NextIortGen == CallBuildIortTable \/ CallFreeIortTableResources

SpecIortGen == InitIortGen /\ [][NextIortGen]_vars

(***************************************************************************)
(* Properties of the IORT generator.                                       *)
(***************************************************************************)
\* The reference tokens resolved by the build, in order: which token, where
\* in the table its offset was stored, and the status of the resolution.
Lookups == { hist.lookups[i] : i \in 1..Len(hist.lookups) }

\* The nodes the build emitted: the token of each and the offset of its header.
Emitted == { hist.emitted[i] : i \in 1..Len(hist.emitted) }

Indexed == { heap.NodeIndexer[k].Token : k \in 1..Len(heap.NodeIndexer) }

\* C15: when a reference token resolved during the emission is not in the
\* node indexer, the resolution fails with EFI_NOT_FOUND, nothing is resolved
\* or emitted after it, BuildIortTable returns EFI_NOT_FOUND and no table, and
\* the table buffer has been freed.
C15_UnknownTokenAbortsBuild ==
  pc \in {"built", "failed"} =>
    \A i \in 1..Len(hist.lookups) :
      hist.lookups[i].Token \notin Indexed =>
        /\ hist.lookups[i].Status = "EFI_NOT_FOUND"
        /\ i = Len(hist.lookups)
        /\ \A e \in Emitted : e.Offset <= hist.lookups[i].At
        /\ ret = [Status |-> "EFI_NOT_FOUND", Table |-> "NULL"]
        /\ hist.freed = << "NodeIndexer", "Iort" >>
        /\ heap.live = {}

\* A build that met a token no node carries, after a successful resolution
\* in an earlier node.
C15_Witness ==
  /\ pc = "failed"
  /\ \E l \in Lookups : l.Token = AbsentToken /\ l.At > SizeOf(IortParser)
  /\ \E l \in Lookups : l.Status = "EFI_SUCCESS"

\* C16: a reference token that is CM_NULL_TOKEN means no reference: its
\* resolution during the emission succeeds and the reference field holds
\* offset zero.
C16_NullTokenWritesZero ==
  pc \in {"built", "failed"} =>
    \A l \in Lookups :
      l.Token = CM_NULL_TOKEN =>
        /\ l.Status = "EFI_SUCCESS"
        /\ InBuf(Buf, l.At, 4) /\ ReadUnaligned32(Buf, l.At) = 0

\* The fields of the header of the node emitted at offset At of the table.
NodeLengthAt(At) == ReadUnaligned16(Buf, At + OFFSET_OF(IortNodeHeaderParser, "Length"))

NumIdMappingsAt(At) ==
  ReadUnaligned32(Buf, At + OFFSET_OF(IortNodeHeaderParser, "Number of ID mappings"))

IdReferenceAt(At) ==
  ReadUnaligned32(Buf, At + OFFSET_OF(IortNodeHeaderParser, "Reference to ID Array"))

\* C17: in a table BuildIortTable returned, the id mappings every node
\* declares lie inside the node: the offset of its id mapping array plus the
\* number of id mappings times the size of an id mapping is at most the
\* length of the node.
C17_IdMappingsInsideNode ==
  pc = "built" =>
    \A e \in Emitted :
      /\ IdReferenceAt(e.Offset) <= NodeLengthAt(e.Offset)
      /\ NumIdMappingsAt(e.Offset)
           <= (NodeLengthAt(e.Offset) - IdReferenceAt(e.Offset))
                \div SizeOf(IortNodeIdMappingParser)

\* The blocks freed so far.
Freed == { hist.freed[i] : i \in 1..Len(hist.freed) }

\* C18: a build that fails has itself released the node indexer and the
\* table buffer, each exactly when it had been allocated (nothing it
\* allocated stays live and nothing else is handed to FreePool), and returns
\* no table; a build that succeeds hands the table buffer over unreleased,
\* and FreeIortTableResources releases it afterwards.
C18_BuildReleasesWhatItAllocated ==
  /\ pc \in {"failed", "fault"} =>
       /\ ~hist.undefined
       /\ heap.live = {}
       /\ ret.Table = "NULL"
  /\ pc = "built" =>
       /\ ret.Table = "Iort"
       /\ "Iort" \in heap.live
       /\ "Iort" \notin Freed
  /\ pc = "freed" /\ ret.Status = "EFI_SUCCESS" =>
       /\ heap.live = {}
       /\ hist.freed = << "NodeIndexer", "Iort" >>

\* C19: a failure of any step of the construction (a fetch from the
\* repository that fails, fewer identifiers, id mappings or interrupts stored
\* than the node declares, a token that does not resolve) makes the build
\* function return an error status and no table: a build that returns
\* success met no failure.
C19_FailedStepFailsBuild ==
  pc \in {"built", "failed"} =>
    /\ hist.failures # << >> => EFI_ERROR(ret.Status) /\ ret.Table = "NULL"
    /\ EFI_ERROR(ret.Status) => ret.Table = "NULL"

\* The sum modulo 256 of the bytes First..Last of a buffer.
RECURSIVE CalculateSum8(_, _, _)
CalculateSum8(Buffer, First, Last) ==
  IF First > Last THEN 0
  ELSE IF First = Last THEN Buffer[First] % 256
  ELSE (CalculateSum8(Buffer, First, (First + Last) \div 2)
          + CalculateSum8(Buffer, ((First + Last) \div 2) + 1, Last)) % 256

\* C20: the bytes of a table the build function returned, the checksum byte
\* of its header included, sum to zero modulo 256.
C20_TableBytesSumToZero ==
  pc = "built" => CalculateSum8(Buf, 1, Len(Buf)) = 0

(***************************************************************************)
(* Specification SpecRoundTrip: BuildIortTable builds a table from a       *)
(* repository in a sound environment, and the table it returned is handed  *)
(* to ParseAcpiIort in consistency mode.                                   *)
(***************************************************************************)
InitRoundTrip ==
  /\ InitIortGen
  /\ call.Protocol /\ call.Pool = Sound.Pool /\ call.Junk = "NULL"
  /\ call.AcpiTableInfo.AcpiTableRevision = Sound.AcpiTableRevision
  /\ call.Repo.EStdObjCfgMgrInfo # << >>

\* The table BuildIortTable returned becomes the table of a run of the
\* inspector: trace and consistency mode on, the static state of the
\* parsers as at program start.
InspectBuiltTable ==
  /\ pc = "built" /\ op = "BuildIortTable"
  /\ op' = "ParseAcpiIort"
  /\ pc' = "start"
  /\ AcpiTableLength' = Len(Buf)
  /\ ConsistencyCheck' = TRUE
  /\ call' = [NoCall EXCEPT !.Trace = TRUE]
  /\ slots' = [n \in SlotNames |-> NULL]
  /\ Counts' = [NoCounts EXCEPT !.Iort = [t \in 1..Len(IortStructs) |-> 0]]
  /\ heap' \in HeapLayouts
  /\ mRefList' = NoList
  /\ log' = << >>
  /\ ret' = 0
  /\ hist' = [NoHistory EXCEPT !.prior = Counts'.Iort]
  /\ Offset' = 0 /\ BodyOffset' = 0 /\ Index' = 0 /\ gIndent' = 0
  /\ UNCHANGED << Buf, Arch >>

NextRoundTrip == CallBuildIortTable \/ InspectBuiltTable \/ NextIort

SpecRoundTrip == InitRoundTrip /\ [][NextRoundTrip]_vars

\* The errors a run of the inspector wrote.
ErrorsLogged == { i \in 1..Len(log) : log[i].sev = "error" }

\* C21: a table a generator returned parses under the dispatcher of its
\* kind, in consistency mode, without an error.
C21_BuiltTableParsesClean ==
  op = "ParseAcpiIort" /\ pc \in {"done", "hang", "fault"} =>
    pc = "done" /\ ErrorsLogged = {}

(***************************************************************************)
(* Specification SpecCfgMgr: the configuration manager driver and the      *)
(* calls of the helper library that change and count its objects.          *)
(*                                                                         *)
(* heap.ObjectList is the object list of the driver, first node first:     *)
(* each node holds a cross-reference token and an object descriptor (id,   *)
(* size in bytes, count of objects and the bytes themselves).  call holds  *)
(* the inputs of the last call: the arguments, which allocations the pool  *)
(* serves, and what the memory the call reads without having written it    *)
(* holds.  heap.Protocol tells whether the driver has installed the        *)
(* configuration manager protocol and heap.Added counts the calls that     *)
(* added an object; hist.ObjectList is the list before the last call.      *)
(***************************************************************************)
EFI_PAGE_SIZE == 4096

\* The objects the calls add: one of one byte and one of two.
Buffers == { << 1 >>, << 2, 3 >> }

CfgMgrIds == { "EStdObjCfgMgrInfo", "EArmObjGicCInfo" }

CfgMgrTokens == { CM_NULL_TOKEN, ItsToken(1) }

\* What a descriptor declared on the stack and never initialised may hold in
\* its Count: nothing, one, or MAX_UINT32.
UninitialisedCounts == { 0, 1, 0 - 1 }

MaxAdded == 2

MaxAllocations == 4

\* The pool: whether it serves the next allocation, the one after, and so on
\* (none once the sequence is exhausted).  The pools of the calls serve all
\* of n allocations or all but one.
Pools(n) ==
  { [k \in 1..n |-> TRUE] } \cup { [k \in 1..n |-> k # j] : j \in 1..n }

Serves(Pool) == Pool # << >> /\ Head(Pool)

Rest(Pool) == IF Pool = << >> THEN << >> ELSE Tail(Pool)

ZeroObject == [ObjectId |-> "0", Size |-> 0, Count |-> 0, Data |-> << >>]

\* The selection both loops of the driver make: the id matches and, when a
\* token is given, the token matches.
Selected(CmEntry, CmObjectId, Token) ==
  /\ CmEntry.Object.ObjectId = CmObjectId
  /\ Token = CM_NULL_TOKEN \/ Token = CmEntry.Token

\* The loop of GetObject from node k on.  s is the descriptor being filled,
\* with the allocated size and the allocations the pool can still serve.
RECURSIVE GetObjectLoop(_, _, _, _, _)
GetObjectLoop(ObjectList, CmObjectId, Token, k, s) ==
  IF k > Len(ObjectList) THEN s
  ELSE IF ~Selected(ObjectList[k], CmObjectId, Token)
  THEN GetObjectLoop(ObjectList, CmObjectId, Token, k + 1, s)
  ELSE LET CmEntry == ObjectList[k]
           Grow == s.Object.Size + CmEntry.Object.Size > s.AllocatedSize
           Copied == [s.Object EXCEPT !.Data = @ \o CmEntry.Object.Data,
                                      !.Size = @ + CmEntry.Object.Size,
                                      !.Count = Add32(@, CmEntry.Object.Count)]
       IN  IF Grow /\ ~Serves(s.Pool)
           THEN [s EXCEPT !.Status = "EFI_OUT_OF_RESOURCES", !.Object.Data = << >>]
           ELSE GetObjectLoop(ObjectList, CmObjectId, Token, k + 1,
                  [s EXCEPT !.Object = Copied,
                            !.Pool = IF Grow THEN Rest(@) ELSE @,
                            !.AllocatedSize =
                              IF Grow THEN (@ * CmEntry.Object.Size) * 2 ELSE @])

\* GetObject of the driver.  CmObject is the descriptor of the caller as it
\* was before the call: the function sets its Data, Size and ObjectId and
\* adds to its Count.
DxeGetObject(ObjectList, CmObjectId, Token, CmObject, Pool) ==
  IF ~Serves(Pool)
  THEN [Status |-> "EFI_OUT_OF_RESOURCES", Pool |-> Rest(Pool), AllocatedSize |-> 0,
        Object |-> [CmObject EXCEPT !.Data = << >>]]
  ELSE LET s == GetObjectLoop(ObjectList, CmObjectId, Token, 1,
                  [Status |-> "EFI_SUCCESS", Pool |-> Rest(Pool),
                   AllocatedSize |-> EFI_PAGE_SIZE,
                   Object |-> [CmObject EXCEPT !.Data = << >>, !.Size = 0,
                                               !.ObjectId = CmObjectId]])
       IN  IF EFI_ERROR(s.Status) THEN s
           ELSE IF s.Object.Count = 0
           THEN [s EXCEPT !.Status = "EFI_NOT_FOUND", !.Object = ZeroObject]
           ELSE s

\* DestroyNode: the node leaves the list (its memory is zeroed, not freed).
DestroyNode(ObjectList, k) ==
  [i \in 1..(Len(ObjectList) - 1) |-> IF i < k THEN ObjectList[i] ELSE ObjectList[i + 1]]

\* The nodes SetObject would act on.
SelectedNodes(ObjectList, CmObjectId, Token) ==
  { k \in 1..Len(ObjectList) : Selected(ObjectList[k], CmObjectId, Token) }

Lowest(S) == CHOOSE k \in S : \A j \in S : k <= j

\* SetObject of the driver with a descriptor: the outcome of the call.
SetObjectTo(ObjectList, CmObjectId, Token, CmObject, Pool) ==
  LET Same == { k \in SelectedNodes(ObjectList, CmObjectId, Token) :
                  Token = ObjectList[k].Token }
      NewEntry == [Token |-> Token,
                   Object |-> [ObjectId |-> CmObject.ObjectId, Size |-> CmObject.Size,
                               Count |-> CmObject.Count, Data |-> CmObject.Data]]
  IN  IF ~Serves(Pool)
      THEN [Status |-> "EFI_OUT_OF_RESOURCES", ObjectList |-> ObjectList, pc |-> "done"]
      ELSE IF Same # {}
      THEN [Status |-> "EFI_SUCCESS", pc |-> "done",
            ObjectList |-> [ObjectList EXCEPT ![Lowest(Same)].Object = NewEntry.Object]]
      ELSE IF ~Serves(Rest(Pool))
      THEN [Status |-> "EFI_OUT_OF_RESOURCES", ObjectList |-> ObjectList, pc |-> "done"]
      ELSE [Status |-> "EFI_SUCCESS", pc |-> "done",
            ObjectList |-> << NewEntry >> \o ObjectList]

\* SetObject of the driver with no descriptor (CmObject is NULL): the
\* outcomes of the call.  The function reads the size and the data pointer
\* through the null pointer before it looks at it: the read faults, or it
\* yields what address zero holds, of which a copy is or is not allocated.
\* In the loop the first selected node is destroyed; the loop then steps on
\* from the zeroed node, whose forward link is NULL, and reads the next node
\* at address zero: a fault, or a walk that never comes back to the list
\* head.
SetObjectNull(ObjectList, CmObjectId, Token) ==
  LET Nodes == SelectedNodes(ObjectList, CmObjectId, Token)
  IN  { [Status |-> "none", ObjectList |-> ObjectList, pc |-> "fault"],
        [Status |-> "EFI_OUT_OF_RESOURCES", ObjectList |-> ObjectList, pc |-> "done"] }
        \cup
      IF Nodes = {}
      THEN { [Status |-> "EFI_SUCCESS", ObjectList |-> ObjectList, pc |-> "done"] }
      ELSE { [Status |-> "none", ObjectList |-> DestroyNode(ObjectList, Lowest(Nodes)),
              pc |-> p] : p \in {"fault", "hang"} }

\* CfgMgrAddObject of the helper library: the outcome of the call.  The
\* status of GetObject is not looked at: when it failed the current object
\* is what the call left in the descriptor.
CfgMgrAddObject(ObjectList, CmObjectId, Token, Buffer, Protocol, Pool) ==
  IF ~Protocol
  THEN [Status |-> "EFI_UNSUPPORTED", ObjectList |-> ObjectList, pc |-> "done"]
  ELSE LET Got == DxeGetObject(ObjectList, CmObjectId, Token, ZeroObject, Pool)
           CurrentObject == Got.Object
           NewObject == [ObjectId |-> CmObjectId,
                         Count |-> Add32(1, CurrentObject.Count),
                         Size |-> Len(Buffer) + CurrentObject.Size,
                         Data |-> CurrentObject.Data \o Buffer]
       IN  IF ~Serves(Got.Pool)
           THEN [Status |-> "EFI_OUT_OF_RESOURCES", ObjectList |-> ObjectList,
                 pc |-> "done"]
           ELSE SetObjectTo(ObjectList, CmObjectId, Token, NewObject, Rest(Got.Pool))

\* CfgMgrRemoveObject of the helper library: the outcomes of the call.
\* Junk is the Count its descriptor held before the call.
CfgMgrRemoveObject(ObjectList, CmObjectId, Token, Protocol, Pool, Junk) ==
  IF ~Protocol
  THEN { [Status |-> "EFI_UNSUPPORTED", ObjectList |-> ObjectList, pc |-> "done"] }
  ELSE LET Got == DxeGetObject(ObjectList, CmObjectId, Token,
                               [ZeroObject EXCEPT !.Count = Junk], Pool)
       IN  IF EFI_ERROR(Got.Status)
           THEN { [Status |-> Got.Status, ObjectList |-> ObjectList, pc |-> "done"] }
           ELSE SetObjectNull(ObjectList, CmObjectId, Token)

\* CfgMgrGetObjects over the driver, asked for the count alone (Buffer is
\* NULL).  ItemCount is the variable of the caller as it was before the call.
DxeGetObjects(ObjectList, CmObjectId, Token, ItemCount, Protocol, Pool, Junk) ==
  IF ~Protocol
  THEN [Status |-> "EFI_UNSUPPORTED", ItemCount |-> ItemCount]
  ELSE LET Got == DxeGetObject(ObjectList, CmObjectId, Token,
                               [ZeroObject EXCEPT !.Count = Junk], Pool)
       IN  IF EFI_ERROR(Got.Status)
           THEN [Status |-> Got.Status, ItemCount |-> ItemCount]
           ELSE [Status |-> "EFI_SUCCESS", ItemCount |-> Got.Object.Count]

\* CfgMgrCountObjects over the driver.
DxeCountObjects(ObjectList, CmObjectId, ItemCount, Protocol, Pool, Junk) ==
  LET Got == DxeGetObjects(ObjectList, CmObjectId, CM_NULL_TOKEN, ItemCount,
                           Protocol, Pool, Junk)
  IN  IF Got.Status = "EFI_NOT_FOUND" THEN [Got EXCEPT !.ItemCount = 0] ELSE Got

\* The revision (1.1) and the OEM id (zeros) the driver stores about itself.
DxeCfgMgrInfo == LE32(65537) \o Zeros(6)

\* ConfigurationManagerInit: the list is initialised and the information
\* object added, the status of the addition not being looked at.
ConfigurationManagerInit(Pool) ==
  CfgMgrAddObject(<< >>, "EStdObjCfgMgrInfo", CM_NULL_TOKEN, DxeCfgMgrInfo, TRUE, Pool).ObjectList

CfgMgrCall(CmObjectId, Token, Buffer, ItemCount, Pool, Junk) ==
  [CmObjectId |-> CmObjectId, Token |-> Token, Buffer |-> Buffer,
   ItemCount |-> ItemCount, Pool |-> Pool, Junk |-> Junk]

InitCfgMgr ==
  /\ pc = "done"
  /\ \E Pool \in Pools(MaxAllocations) :
       /\ call = CfgMgrCall("EStdObjCfgMgrInfo", CM_NULL_TOKEN, DxeCfgMgrInfo, 0, Pool, 0)
       /\ \/ /\ op = "ConfigurationManagerInit"
             /\ heap = [Protocol |-> TRUE, Added |-> 0,
                     ObjectList |-> ConfigurationManagerInit(Pool)]
          \/ /\ op = "none"
             /\ Pool = [k \in 1..MaxAllocations |-> TRUE]
             /\ heap = [Protocol |-> FALSE, Added |-> 0, ObjectList |-> << >>]
  /\ hist = [ObjectList |-> << >>]
  /\ ret = [Status |-> "EFI_SUCCESS", ItemCount |-> 0]
  /\ Buf = << >> /\ AcpiTableLength = 0 /\ ConsistencyCheck = TRUE /\ Arch = "AARCH64"
  /\ Offset = 0 /\ BodyOffset = 0 /\ Index = 0 /\ gIndent = 0
  /\ slots = [n \in SlotNames |-> NULL]
  /\ Counts = NoCounts
  /\ mRefList = NoList
  /\ log = << >>

Returned(Name, c, o, ItemCount) ==
  /\ op' = Name
  /\ call' = c
  /\ hist' = [ObjectList |-> heap.ObjectList]
  /\ heap' = [heap EXCEPT !.ObjectList = o.ObjectList,
                           !.Added = IF Name = "CfgMgrAddObject" THEN @ + 1 ELSE @]
  /\ ret' = [Status |-> o.Status, ItemCount |-> ItemCount]
  /\ pc' = o.pc
  /\ UNCHANGED << Buf, AcpiTableLength, ConsistencyCheck, Arch, Offset, BodyOffset,
                  Index, gIndent, slots, Counts, mRefList, log >>

CallCfgMgrAddObject ==
  /\ pc = "done"
  /\ heap.Added < MaxAdded
  /\ \E CmObjectId \in CfgMgrIds, Token \in CfgMgrTokens, Buffer \in Buffers,
        Pool \in Pools(MaxAllocations) :
       \E o \in { CfgMgrAddObject(heap.ObjectList, CmObjectId, Token, Buffer,
                                  heap.Protocol, Pool) } :
         Returned("CfgMgrAddObject", CfgMgrCall(CmObjectId, Token, Buffer, 0, Pool, 0),
                  o, 0)

CallCfgMgrRemoveObject ==
  /\ pc = "done"
  /\ \E CmObjectId \in CfgMgrIds, Token \in CfgMgrTokens, Pool \in Pools(1),
        Junk \in UninitialisedCounts :
       \E o \in CfgMgrRemoveObject(heap.ObjectList, CmObjectId, Token, heap.Protocol,
                                   Pool, Junk) :
         Returned("CfgMgrRemoveObject", CfgMgrCall(CmObjectId, Token, << >>, 0, Pool, Junk),
                  o, 0)

CallCfgMgrCountObjects ==
  /\ pc = "done"
  /\ \E CmObjectId \in CfgMgrIds, ItemCount \in UninitialisedCounts \ {0},
        Pool \in Pools(1), Junk \in UninitialisedCounts :
       \E o \in { DxeCountObjects(heap.ObjectList, CmObjectId, ItemCount, heap.Protocol,
                                  Pool, Junk) } :
         Returned("CfgMgrCountObjects",
                  CfgMgrCall(CmObjectId, CM_NULL_TOKEN, << >>, ItemCount, Pool, Junk),
                  [Status |-> o.Status, ObjectList |-> heap.ObjectList, pc |-> "done"],
                  o.ItemCount)

NextCfgMgr == CallCfgMgrAddObject \/ CallCfgMgrRemoveObject \/ CallCfgMgrCountObjects

SpecCfgMgr == InitCfgMgr /\ [][NextCfgMgr]_vars

\* What the repository holds under exactly an id and a token: the bytes and
\* the count of the nodes of that id and token, in the order of the list.
StoredUnder(ObjectList, CmObjectId, Token) ==
  LET Nodes == SelectSeq(ObjectList, LAMBDA e : e.Object.ObjectId = CmObjectId
                                                /\ e.Token = Token)
  IN  [Data |-> Flatten([k \in 1..Len(Nodes) |-> Nodes[k].Object.Data]),
       Count |-> IF Nodes = << >> THEN 0
                 ELSE LET RECURSIVE Sum(_)
                          Sum(k) == IF k = 0 THEN 0
                                    ELSE Add32(Sum(k - 1), Nodes[k].Object.Count)
                      IN  Sum(Len(Nodes))]

AddSucceeded ==
  op = "CfgMgrAddObject" /\ pc = "done" /\ ret.Status = "EFI_SUCCESS"

\* C22: after a successful CfgMgrAddObject the repository differs from what
\* it was only in the list of the id and token of the call, which is what it
\* was followed by the new object, its count one more (the new object alone
\* with a count of one when there was no such list).
C22_AddAppendsToOneList ==
  AddSucceeded =>
    \A CmObjectId \in CfgMgrIds, Token \in CfgMgrTokens :
      LET Old == StoredUnder(hist.ObjectList, CmObjectId, Token)
          New == StoredUnder(heap.ObjectList, CmObjectId, Token)
      IN  IF CmObjectId = call.CmObjectId /\ Token = call.Token
          THEN New = [Data |-> Old.Data \o call.Buffer, Count |-> Add32(Old.Count, 1)]
          ELSE New = Old

\* C23: CfgMgrRemoveObject returns; when objects are stored under the id of
\* the call (and under its token, when it has one) it returns EFI_SUCCESS and
\* exactly the lists that hold them are gone from the repository; when there
\* are none it returns EFI_NOT_FOUND and the repository is what it was.
C23_RemoveTakesWhatMatches ==
  op = "CfgMgrRemoveObject" /\ heap.Protocol /\ Serves(call.Pool) =>
    /\ pc = "done"
    /\ IF SelectedNodes(hist.ObjectList, call.CmObjectId, call.Token) = {}
       THEN ret.Status = "EFI_NOT_FOUND" /\ heap.ObjectList = hist.ObjectList
       ELSE /\ ret.Status = "EFI_SUCCESS"
            /\ heap.ObjectList =
                 SelectSeq(hist.ObjectList,
                           LAMBDA e : ~Selected(e, call.CmObjectId, call.Token))

\* C24: CfgMgrCountObjects for an id of which the repository holds no object
\* yields a count of zero, with the status of success or of not-found and no
\* other.
C24_AbsentCountsAsZero ==
  /\ op = "CfgMgrCountObjects" /\ heap.Protocol /\ Serves(call.Pool)
  /\ SelectedNodes(hist.ObjectList, call.CmObjectId, CM_NULL_TOKEN) = {}
  => /\ pc = "done"
     /\ ret.ItemCount = 0
     /\ ret.Status \in {"EFI_SUCCESS", "EFI_NOT_FOUND"}

(***************************************************************************)
(* Properties of the loops of the dispatchers.                             *)
(***************************************************************************)
\* The end of the Length field in the header every structure of a table
\* starts with.
HeaderEnd(Parser) == OFFSET_OF(Parser, "Length") + FIELD_SIZE_OF(Parser, "Length")

C26_ListsFreedAtReturn ==
  pc = "done" /\ op \in {"ParseAcpiMadt", "ParseAcpiPptt"} =>
    /\ mRefList.entries = << >>
    /\ hist.live = {}
    /\ op = "ParseAcpiPptt" /\ call.Trace => mRefList.free = heap.free

\* A PPTT run that indexed structures, left its first loop on a length
\* error and has returned.
C26_Witness ==
  /\ pc = "done" /\ op = "ParseAcpiPptt"
  /\ \E i \in 1..Len(hist.lists) : Len(hist.lists[i]) >= 2
  /\ \E i \in 1..Len(log) : log[i].sev = "error" /\ log[i].kind = "length"
  /\ hist.dispatch = << >>

(***************************************************************************)
(* Specification SpecRefs: a client of AcpiCrossValidatorRefsValid that    *)
(* indexes structures of a table by type and offset in mRefList, asks      *)
(* whether a reference from one structure to an offset is allowed, and     *)
(* deletes the list.  The call asked last is kept in call.                 *)
(***************************************************************************)
RefOffsets == { 44, 64, 84 }

\* ACPI_VALID_REFS with two types: type 0 may reference type 1, and type 1
\* may reference type 1.
RefsValidRefs ==
  [IsValid |-> << FALSE, TRUE, FALSE, TRUE >>, TypeCount |-> 2, Name |-> "Parent"]

RefTypes == 0..RefsValidRefs.TypeCount

NoRefsCall == [FromOffset |-> 0, ToOffset |-> 0, FromType |-> 0]

\* The loop body for the entry GetFirstNode returned: the loop has no
\* statement that moves Entry on, so an entry at another offset is met
\* again at every pass.
RefsValidLoop(RefList, ValidRefs, FromOffset, ToOffset, FromType, g) ==
  IF RefList.entries = << >>
  THEN [AcpiError(g, "cross",
          "ERROR: Structure at offset 0x%x is making a '%s' reference to another structure at offset 0x%x which does not exist",
          ValidRefs.Name, << FromOffset, ToOffset >>) EXCEPT !.ret = FALSE]
  ELSE
    LET AcpiEntry == RefList.entries[1]
        ToType == AcpiEntry.Type
        IsValid == /\ ToType < ValidRefs.TypeCount
                   /\ ValidRefs.IsValid[(FromType * ValidRefs.TypeCount) + ToType + 1]
    IN  IF AcpiEntry.Offset = ToOffset
        THEN IF ~IsValid
             THEN [AcpiError(g, "cross",
                     "ERROR: Structure at offset 0x%x is making a '%s' reference to another structure at offset 0x%x which is not allowed for the two structure types (%d and %d)",
                     ValidRefs.Name, << FromOffset, ToOffset, FromType, ToType >>)
                     EXCEPT !.ret = FALSE]
             ELSE [g EXCEPT !.ret = TRUE]
        ELSE [g EXCEPT !.hang = TRUE]

AcpiCrossValidatorRefsValid(RefList, ValidRefs, FromOffset, ToOffset, FromType, g) ==
  IF FromType >= ValidRefs.TypeCount
  THEN [AcpiError(g, "cross",
          "ERROR: Structure of unrecognized type (%d) at offset 0x%x is making a '%s' reference",
          ValidRefs.Name, << FromType, FromOffset >>) EXCEPT !.ret = FALSE]
  ELSE IF FromOffset = ToOffset
  THEN [AcpiError(g, "cross",
          "ERROR: Structure at offset 0x%x is making a '%s' reference to itself",
          ValidRefs.Name, << FromOffset >>) EXCEPT !.ret = FALSE]
  ELSE RefsValidLoop(RefList, ValidRefs, FromOffset, ToOffset, FromType, g)

InitRefs ==
  /\ op = "RefsValid"
  /\ pc = "idle"
  /\ Buf = UniqueTable
  /\ AcpiTableLength = Len(Buf)
  /\ ConsistencyCheck = TRUE
  /\ Arch = "AARCH64"
  /\ call = NoRefsCall
  /\ Offset = 0
  /\ BodyOffset = 0
  /\ Index = 0
  /\ gIndent = 0
  /\ slots = [n \in SlotNames |-> NULL]
  /\ Counts = NoCounts
  /\ heap \in UniqueHeapLayouts
  /\ mRefList = InitializeListHead(heap.stack)
  /\ log = << >>
  /\ ret = FALSE
  /\ hist = NoHistory

\* A structure of the table is indexed: its first four bytes, type and offset.
RefsAdd ==
  /\ pc = "idle" /\ op = "RefsValid"
  /\ Len(mRefList.entries) < MaxEntries
  /\ \E Struct \in RefOffsets, Type \in RefTypes :
       mRefList' = AcpiCrossValidatorAdd(mRefList, Struct, 4, Type, Struct)
  /\ UNCHANGED << op, pc, Buf, AcpiTableLength, ConsistencyCheck, Arch, heap, call,
                  gIndent, slots, Counts, log, ret, hist, Offset, BodyOffset, Index >>

CallAcpiCrossValidatorRefsValid ==
  /\ pc = "idle" /\ op = "RefsValid"
  /\ \E FromOffset \in RefOffsets, ToOffset \in RefOffsets, FromType \in RefTypes :
       /\ call' = [FromOffset |-> FromOffset, ToOffset |-> ToOffset, FromType |-> FromType]
       /\ Commit(AcpiCrossValidatorRefsValid(mRefList, RefsValidRefs, FromOffset, ToOffset,
                                             FromType, G),
                 "returned")
  /\ UNCHANGED << op, Buf, AcpiTableLength, ConsistencyCheck, Arch, heap,
                  Offset, BodyOffset, Index >>

RefsDelete ==
  /\ pc \in {"idle", "returned"} /\ op = "RefsValid"
  /\ mRefList' = AcpiCrossValidatorDelete(mRefList)
  /\ hist' = [hist EXCEPT !.lists = Append(@, mRefList.entries)]
  /\ pc' = "deleted"
  /\ UNCHANGED << op, Buf, AcpiTableLength, ConsistencyCheck, Arch, heap, call,
                  gIndent, slots, Counts, log, ret, Offset, BodyOffset, Index >>

NextRefs == RefsAdd \/ CallAcpiCrossValidatorRefsValid \/ RefsDelete

SpecRefs == InitRefs /\ [][NextRefs]_vars

\* The call asked was one that reaches the search of the list.
RefsSearched ==
  /\ op = "RefsValid" /\ pc \in {"returned", "hang"}
  /\ call.FromType < RefsValidRefs.TypeCount
  /\ call.FromOffset # call.ToOffset

\* C27: AcpiCrossValidatorRefsValid returns for every reference list: FALSE
\* with a "does not exist" error when no entry of the list is at the
\* referenced offset, and otherwise whether the from-type may reference the
\* type of the entry found at that offset, wherever in the list it is.
C27_RefsValidFindsEntry ==
  RefsSearched =>
    LET k == FindOffset(mRefList, call.ToOffset)
    IN  /\ pc = "returned"
        /\ k = 0 => /\ ret = FALSE
                    /\ log # << >>
                    /\ log[Len(log)].args = << call.FromOffset, call.ToOffset >>
        /\ k # 0 => ret = ( /\ mRefList.entries[k].Type < RefsValidRefs.TypeCount
                            /\ RefsValidRefs.IsValid[(call.FromType * RefsValidRefs.TypeCount)
                                                     + mRefList.entries[k].Type + 1] )

\* The kinds of IORT node, as a set.
KindsOfNode == { IortNodeKinds[i] : i \in 1..Len(IortNodeKinds) }

\* The build allocated the table buffer, and so went on to the emission.
TableAllocated == op = "BuildIortTable" /\ pc \in {"built", "failed", "fault"}
                    /\ heap.Iort = "Iort"

\* C28: in the emission pass of BuildIortTable every byte written lies
\* inside the table buffer allocated from the sizing pass, and the first
\* node of every kind is written at the offset the sizing pass computed for
\* the kind.
C28_EmissionInsideTable ==
  TableAllocated =>
    /\ ~hist.undefined
    /\ \A k \in KindsOfNode : \A e \in Emitted :
         call.Repo[k] # << >> /\ e.Token = call.Repo[k][1].Token
           => e.Offset = heap.Offset[k]

(***************************************************************************)
(* Properties of ValidateReference on references to offsets at which no    *)
(* structure was indexed, and on chains of valid references.               *)
(***************************************************************************)
\* The references validated whose offset is not zero and at which no
\* structure was indexed.
DanglingReferences == { r \in PpttReferences : r.Reference # 0 /\ ~r.indexed }

\* C29: for a reference to a non-zero offset at which no structure was
\* indexed, ValidateReference reports the missing structure and reads no
\* structure through a list entry: neither through the last entry the
\* search visited nor through the unset entry pointer.
C29_NoReadThroughUnfoundEntry ==
  op = "ParseAcpiPptt" =>
    \A r \in DanglingReferences :
      /\ r.first <= r.last
      /\ log[r.first].sev = "error" /\ log[r.first].kind = "cross"
      /\ log[r.first].args = << r.Reference >>
      /\ r.through = "none"

\* The chain of references from the structure at o ends: it cannot be
\* followed as many hops as the table has structures, so it meets no cycle.
ChainEnds(o) == ~CanHop(o, Cardinality(PpttStructures))

\* C30: for a reference to an existing structure of the kind of the
\* referring structure that is not a leaf processor node, and from which
\* the chain of references of the table ends without a cycle,
\* ValidateReference reports no "Reference loop detected", however long the
\* chain is.  A structure too short to hold a reference field makes none.
C30_NoLoopErrorOnEndingChain ==
  op = "ParseAcpiPptt" =>
    \A r \in PpttReferences :
      Acceptable(r) /\ ChainEnds(r.Reference) => LoopErrorsOf(r) = {}

====
